---- MODULE Spec2Model ----
(***************************************************************************)
(* firestore-search-engine: the index collection, the indexing, removal    *)
(* and bulk-indexing calls that maintain it, and the search calls that     *)
(* read it.                                                                *)
(*                                                                         *)
(* Conventions.  A text is a sequence of one-character strings.  A vector  *)
(* produced by the embedding provider is kept as the text it embeds; the   *)
(* cosine distance of a stored vector to a query vector is an input of the *)
(* search (a table from embedded texts to distances).                      *)
(* Distances are in hundredths (30 is 0.30), weights in tenths (5 is 0.5), *)
(* so a weighted relevance is in thousandths.                              *)
(***************************************************************************)
EXTENDS Integers, Sequences, FiniteSets, TLC

VARIABLES
  procs,    \* the callers that run API calls (one, or two concurrent ones)
  store,    \* the index collection: a set of entries, each with a document id
  pc,       \* pc[p]: where caller p stands in its current call
  op,       \* op[p]: the call caller p is running, or (when idle) completed last
  snap,     \* snap[p]: ids returned by the last where(indexedDocumentPath ==) query
  bulk,     \* bulk[p]: writes enqueued on p's BulkWriter and not yet committed
  hist,     \* hist[p]: the call p completed right before op[p], when op[p] is of
            \* the same kind or a search
  pre,      \* pre[p]: the collection as it was when p's last indexing or removal began
  removed,  \* paths whose remove() completed and that no index call touched since
  res,      \* res[p]: the list returned by p's last search call
  embeddingModel,  \* vectorize.ts: the model instance held, 0 for null
  inits,    \* the calls of FlagEmbedding.init made so far; the k-th one
            \* resolves to instance k
  vectorize \* vectorize[c]: where call c of fse_vectorizeText stands, and the
            \* instance it awaits or embeds with

embedVars == <<embeddingModel, inits, vectorize>>

vars == <<procs, store, pc, op, snap, bulk, hist, pre, removed, res,
          embeddingModel, inits, vectorize>>

(***************************************************************************)
(* Bounds of the model.                                                    *)
(***************************************************************************)
MaxBulk == 2      \* longest document list handed to a bulk call

(***************************************************************************)
(* Texts.                                                                  *)
(***************************************************************************)
UpperChars == <<"A","B","C","D","E","F","G","H","I","J","K","L","M",
                "N","O","P","Q","R","S","T","U","V","W","X","Y","Z">>
LowerChars == <<"a","b","c","d","e","f","g","h","i","j","k","l","m",
                "n","o","p","q","r","s","t","u","v","w","x","y","z">>

toLowerCaseChar(c) ==
  IF \E i \in 1..Len(UpperChars) : UpperChars[i] = c
    THEN LowerChars[CHOOSE i \in 1..Len(UpperChars) : UpperChars[i] = c]
    ELSE c

toLowerCase(s) == [i \in 1..Len(s) |-> toLowerCaseChar(s[i])]

NoText == <<>>

\* a field value that is no string (the field is missing, or holds a number)
Undefined == <<"undefined">>
IsString(value) == value # Undefined

TClos == <<"C","l","o","s">>
TClod == <<"c","l","o","d">>
TFleuri == <<"f","l","e","u","r","i">>

(***************************************************************************)
(* The embedding provider (fse_vectorizeText): an empty text gives the     *)
(* empty vector, any other text its embedding.                             *)
(***************************************************************************)
NoVec == [none |-> TRUE]

fse_vectorizeText(text) == IF Len(text) = 0 THEN NoVec ELSE [src |-> text]

\* the calls of fse_vectorizeText followed step by step
MaxCalls == 3
VCalls == 1..MaxCalls

NotCalled == [pc |-> "none", text |-> NoText, model |-> 0]

\* a process that has vectorized before: the model is loaded, and every
\* later getEmbeddingModel returns it as it is
ModelLoaded ==
  /\ embeddingModel = 1
  /\ inits = 1
  /\ vectorize = [c \in VCalls |-> NotCalled]

(***************************************************************************)
(* Entries of the index collection.                                        *)
(***************************************************************************)
Fields == {"name", "desc"}

NoFieldVecs == [f \in Fields |-> NoVec]
NoOriginals == [f \in Fields |-> NoText]

Ids(S) == {e.id : e \in S}
EntriesFor(S, path) == {e \in S : e.indexedDocumentPath = path}
Count(path) == Cardinality(EntriesFor(store, path))

\* Every document id some caller still refers to: a fresh doc() id differs
\* from all of them.  An id is the document's content and a serial number
\* that tells documents of equal content apart.
writeIds(writes) ==
  {w.id : w \in {x \in writes : x.type = "delete"}}
    \cup {w.entry.id : w \in {x \in writes : x.type = "create"}}
PendingIds(p) == writeIds(bulk[p])
UsedIds == Ids(store) \cup UNION {snap[p] \cup PendingIds(p) : p \in procs}
NewDocId(used, data) ==
  [data |-> data,
   n |-> CHOOSE i \in 1..(Cardinality(used) + 1) : [data |-> data, n |-> i] \notin used]

\* Document ids are opaque: the collection with its documents renamed to
\* the first serial numbers, which nothing can tell from the collection as
\* it is when no caller holds a document reference.
canonical(S) ==
  {[id |-> [data |-> e.id.data,
            n |-> Cardinality({x \in S : x.id.data = e.id.data /\ x.id.n <= e.id.n})]]
     @@ e.id.data : e \in S}

\* collection(c).doc() and the data written to it
withNewDocId(used, data) == [id |-> NewDocId(used, data)] @@ data

(***************************************************************************)
(* Configuration (FirestoreSearchEngineConfig) and the flush cadence.      *)
(* wordMinLength is the default; wordMaxLength is configured low so that   *)
(* the model's texts fall on both sides of it.                             *)
(***************************************************************************)
\* a distanceThreshold: a number, in hundredths, or a value that is none
\* (undefined, a string, NaN)
Number(v) == [number |-> TRUE, value |-> v]
NotANumber == [number |-> FALSE, value |-> 0]

\* the threshold of last resort, 0.2
DefaultDistanceThreshold == 20

config ==
  [collection |-> "index", wordMinLength |-> 3, wordMaxLength |-> 5,
   distanceThreshold |-> Number(DefaultDistanceThreshold)]

FlushEvery == 500

\* writes per batch of the BulkWriter
MaxBatchSize == 20

(***************************************************************************)
(* Inputs of the calls.                                                    *)
(***************************************************************************)
PathA == "docs/a"
PathB == "docs/b"
Paths == {PathA, PathB}

\* FirestoreSearchEngineIndexesProps of indexes() and removeIndexes()
IndexesProps ==
  { [inputField |-> TClos, returnedFields |-> [indexedDocumentPath |-> PathA, title |-> "t1"]],
    [inputField |-> TClod, returnedFields |-> [indexedDocumentPath |-> PathA, title |-> "t2"]],
    [inputField |-> TFleuri, returnedFields |-> [indexedDocumentPath |-> PathB, title |-> "t1"]] }

\* documentsToIndexes of indexesAll(): indexedKey is "name", returnedKey is <<"title">>
BulkDocs ==
  { [indexedDocumentPath |-> PathA, name |-> TClod, title |-> "t2"],
    [indexedDocumentPath |-> PathB, name |-> TClod, title |-> "t1"] }

\* documentsToIndexes of indexesAllMultiField(); fieldConfigs names both Fields
MultiDocs ==
  { [indexedDocumentPath |-> PathA, name |-> TClos, desc |-> TClod, title |-> "t1"],
    [indexedDocumentPath |-> PathB, name |-> <<"c","l">>, desc |-> TFleuri, title |-> "t2"] }

\* FirestoreSearchEngineIndexesProps of the keyword version of indexes(),
\* which reads its wordMaxLength from the props
LegacyProps ==
  { [inputField |-> toLowerCase(TClos), wordMaxLength |-> 5,
     returnedFields |-> [indexedDocumentPath |-> PathA, title |-> "t1"]],
    [inputField |-> <<"c","l">>, wordMaxLength |-> 5,
     returnedFields |-> [indexedDocumentPath |-> PathA, title |-> "t2"]],
    [inputField |-> TFleuri, wordMaxLength |-> 5,
     returnedFields |-> [indexedDocumentPath |-> PathB, title |-> "t1"]] }

fieldConfigs == [name |-> [weight |-> 20, fuzzySearch |-> TRUE],
                 desc |-> [weight |-> 5, fuzzySearch |-> FALSE]]

SeqsUpTo(S, n) == UNION {[1..k -> S] : k \in 0..n}

(***************************************************************************)
(* The documents the indexing calls create.                                *)
(***************************************************************************)
\* Indexes.saveWithLimitedKeywords: the document handed to bulk.create
singleIndexDocument(props, keywords) ==
  [indexedDocumentPath |-> props.returnedFields.indexedDocumentPath,
   vectors |-> keywords,
   fieldValue |-> toLowerCase(props.inputField),
   fvec |-> NoFieldVecs,
   original |-> NoOriginals,
   search_keywords |-> <<>>,
   title |-> props.returnedFields.title]

\* IndexesAll.execute: one element of readyToBulk
readyToBulkElement(element) ==
  [keywords |-> fse_vectorizeText(element.name),
   returnedFields |-> [indexedDocumentPath |-> element.indexedDocumentPath,
                       fieldValue |-> toLowerCase(element.name),
                       title |-> element.title]]

\* IndexesAll.bulkWithLimitedKeywords: the document handed to bulk.create
bulkIndexDocument(document) ==
  [indexedDocumentPath |-> document.returnedFields.indexedDocumentPath,
   vectors |-> document.keywords,
   fieldValue |-> document.returnedFields.fieldValue,
   fvec |-> NoFieldVecs,
   original |-> NoOriginals,
   search_keywords |-> <<>>,
   title |-> document.returnedFields.title]

\* String.prototype.trim on the model's texts (blanks at either end)
RECURSIVE trimStart(_)
trimStart(s) == IF Len(s) > 0 /\ Head(s) = " " THEN trimStart(Tail(s)) ELSE s
RECURSIVE trimEnd(_)
trimEnd(s) ==
  IF Len(s) > 0 /\ s[Len(s)] = " " THEN trimEnd(SubSeq(s, 1, Len(s) - 1)) ELSE s
trim(s) == trimEnd(trimStart(s))

\* IndexesAll.executeMultiField: the fields of an element that are vectorized
fieldsToVectorize(element) ==
  [f \in Fields |->
     LET cleanText == trim(toLowerCase(element[f])) IN
     IF /\ IsString(element[f])
        /\ Len(element[f]) > 0
        /\ Len(cleanText) >= config.wordMinLength
        /\ Len(cleanText) <= config.wordMaxLength
       THEN cleanText ELSE NoText]

\* IndexesAll.executeMultiField: the index document of an element
multiIndexDocument(element) ==
  LET texts == fieldsToVectorize(element) IN
  [indexedDocumentPath |-> element.indexedDocumentPath,
   vectors |-> NoVec,
   fieldValue |-> NoText,
   fvec |-> [f \in Fields |-> fse_vectorizeText(texts[f])],
   original |-> texts,
   search_keywords |-> <<>>,
   title |-> element.title]

\* IndexesAll.executeMultiField: elements with no field to vectorize are skipped
hasFieldsToVectorize(element) ==
  \E f \in Fields : fieldsToVectorize(element)[f] # NoText

(***************************************************************************)
(* The store's primitives.                                                 *)
(***************************************************************************)
\* (mutant) the query without its equality filter
whereIndexedDocumentPath_noFilter(S, path) == Ids(S)

\* collection(c).where("indexedDocumentPath", "==", path).get()
whereIndexedDocumentPath(S, path) == Ids(EntriesFor(S, path))

\* (mutant) one bulk.delete only, for the first document found
deleteWrites_firstOnly(ids) ==
  IF ids = {} THEN {} ELSE {[type |-> "delete", id |-> CHOOSE i \in ids : TRUE]}

\* (mutant) a committed delete leaves the document in place
applyWrite_keepDeleted(S, w) ==
  IF w.type = "delete" THEN S ELSE S \cup {w.entry}

\* the effect of one committed BulkWriter write
applyWrite(S, w) ==
  IF w.type = "delete" THEN {e \in S : e.id # w.id} ELSE S \cup {w.entry}

deleteWrites(ids) == {[type |-> "delete", id |-> i] : i \in ids}
createWrite(entry) == [type |-> "create", entry |-> entry]

(***************************************************************************)
(* Calls.  A caller is idle, or inside one call; each action below is one  *)
(* stretch of a call between two awaits.                                   *)
(***************************************************************************)
NoCall == [type |-> "none"]

PathsOf(call) ==
  CASE call.type \in {"indexes", "remove", "indexesLegacy", "indexesMultiField"} ->
         {call.props.returnedFields.indexedDocumentPath}
    [] call.type = "indexesAll" ->
         {call.bulkData[i].returnedFields.indexedDocumentPath : i \in 1..Len(call.bulkData)}
    [] call.type = "indexesAllMultiField" ->
         {call.bulkData[i].indexedDocumentPath : i \in 1..Len(call.bulkData)}
    [] OTHER -> {}

\* what is remembered of a call once it has returned
Summary(call) ==
  CASE call.type \in {"indexes", "indexesLegacy", "indexesMultiField"} ->
         [type |-> call.type, props |-> call.props]
    [] call.type = "remove" ->
         [type |-> "remove", path |-> call.props.returnedFields.indexedDocumentPath]
    [] OTHER -> [type |-> call.type]

\* what every call does to the bookkeeping when it starts
Begin(p, call, at) ==
  /\ pc[p] = "idle"
  /\ op' = [op EXCEPT ![p] = call]
  /\ pc' = [pc EXCEPT ![p] = at]
  /\ hist' = [hist EXCEPT ![p] =
                IF call.type \in {"indexes", "remove"} /\ op[p].type = call.type
                  THEN op[p] ELSE NoCall]
  /\ pre' = [pre EXCEPT ![p] = store]
  /\ res' = [res EXCEPT ![p] = <<>>]
  /\ snap' = [snap EXCEPT ![p] = {}]
  /\ removed' = IF call.type = "remove" THEN removed ELSE removed \ PathsOf(call)

\* what every call does to the bookkeeping when it returns
Return(p) ==
  /\ pc' = [pc EXCEPT ![p] = "idle"]
  /\ op' = [op EXCEPT ![p] = Summary(op[p])]
  /\ snap' = [snap EXCEPT ![p] = {}]
  /\ removed' = IF op[p].type = "remove" THEN removed \cup PathsOf(op[p]) ELSE removed

\* a call throws before it has done anything: the caller stays idle
Throw(p, call) ==
  /\ pc[p] = "idle"
  /\ op' = [op EXCEPT ![p] = [type |-> "threw", of |-> call]]
  /\ hist' = [hist EXCEPT ![p] = NoCall]
  /\ UNCHANGED <<procs, store, pc, snap, bulk, pre, removed, res>>

\* FirestoreSearchEngine.indexes -> Indexes.execute -> executeSingleField:
\* validation of the input field, then its embedding
indexes(p, props) ==
  IF Len(props.inputField) = 0
    THEN Throw(p, [type |-> "indexes", props |-> props])
    ELSE /\ Begin(p, [type |-> "indexes", props |-> props,
                      vector |-> fse_vectorizeText(props.inputField)], "clean")
         /\ UNCHANGED <<procs, store, bulk>>

\* FirestoreSearchEngine.removeIndexes -> Indexes.remove
removeIndexes(p, props) ==
  IF Len(props.inputField) = 0
    THEN Throw(p, [type |-> "remove", props |-> props])
    ELSE /\ Begin(p, [type |-> "remove", props |-> props], "clean")
         /\ UNCHANGED <<procs, store, bulk>>

\* (mutant) cleanOldIndexes returns without awaiting bulk.flush()
afterEnqueue_noFlush(call, docs) ==
  IF call.type = "remove" THEN "close" ELSE "create"

\* (mutant) the early return of cleanOldIndexes ends the whole call
afterEnqueue_returnsEarly(call, docs) ==
  IF docs # {} THEN "flush" ELSE "close"

\* Indexes.cleanOldIndexes: where the call stands once the deletes are
\* enqueued: nothing found, it returns at once; else it awaits bulk.flush()
afterEnqueue(call, docs) ==
  IF docs # {} THEN "flush"
  ELSE IF call.type = "remove" THEN "close" ELSE "create"

\* Indexes.cleanOldIndexes, to its first await on the BulkWriter: the
\* equality query, then one bulk.delete per document found
cleanOldIndexes(p) ==
  /\ pc[p] = "clean"
  /\ LET docs == whereIndexedDocumentPath(store,
                   op[p].props.returnedFields.indexedDocumentPath) IN
       /\ snap' = [snap EXCEPT ![p] = docs]
       /\ bulk' = [bulk EXCEPT ![p] = @ \cup deleteWrites(docs)]
       /\ pc' = [pc EXCEPT ![p] = afterEnqueue(op[p], docs)]
  /\ UNCHANGED <<procs, store, op, hist, pre, removed, res>>

\* Indexes.cleanOldIndexes: await bulk.flush() has resolved
flushed(p) ==
  /\ pc[p] = "flush"
  /\ bulk[p] = {}
  /\ pc' = [pc EXCEPT ![p] = IF op[p].type = "remove" THEN "close" ELSE "create"]
  /\ UNCHANGED <<procs, store, op, snap, bulk, hist, pre, removed, res>>

\* Indexes.saveWithLimitedKeywords after cleanOldIndexes: bulk.create
saveWithLimitedKeywords(p) ==
  /\ pc[p] = "create"
  /\ op[p].type = "indexes"
  /\ bulk' = [bulk EXCEPT ![p] = @ \cup
       {createWrite(withNewDocId(UsedIds,
                      singleIndexDocument(op[p].props, op[p].vector)))}]
  /\ pc' = [pc EXCEPT ![p] = "close"]
  /\ UNCHANGED <<procs, store, op, snap, hist, pre, removed, res>>

\* (mutant) bulk.close() is not awaited: the call returns at once
closed_notAwaited(p) ==
  /\ pc[p] = "close"
  /\ Return(p)
  /\ store' = IF \A q \in procs \ {p} : snap[q] = {} /\ bulk[q] = {}
               THEN canonical(store) ELSE store
  /\ UNCHANGED <<procs, bulk, hist, pre, res>>

\* await bulk.close() has resolved: the call returns
closed(p) ==
  /\ pc[p] = "close"
  /\ bulk[p] = {}
  /\ Return(p)
  /\ store' = IF \A q \in procs \ {p} : snap[q] = {} /\ bulk[q] = {}
               THEN canonical(store) ELSE store
  /\ UNCHANGED <<procs, bulk, hist, pre, res>>

\* The BulkWriter commits one of the writes enqueued on it, in no fixed
\* order.  It sends its writes once flush() or close() has been called, and
\* on its own once a batch is full.
bulkWriterCommit(p) ==
  /\ pc[p] \in {"flush", "close"} \/ Cardinality(bulk[p]) >= MaxBatchSize
  /\ \E w \in bulk[p] :
       /\ store' = applyWrite(store, w)
       /\ bulk' = [bulk EXCEPT ![p] = @ \ {w}]
  /\ UNCHANGED <<procs, pc, op, snap, hist, pre, removed, res>>

\* The process running a single-document call dies: the writes not yet
\* committed are lost.
crash(p) ==
  /\ pc[p] # "idle"
  /\ op[p].type \in {"indexes", "remove"}
  /\ pc' = [pc EXCEPT ![p] = "idle"]
  /\ op' = [op EXCEPT ![p] = [type |-> "crashed", of |-> Summary(op[p])]]
  /\ bulk' = [bulk EXCEPT ![p] = {}]
  /\ snap' = [snap EXCEPT ![p] = {}]
  /\ UNCHANGED <<procs, store, hist, pre, removed, res>>

\* FirestoreSearchEngine.indexesAll -> IndexesAll.execute: readyToBulk is
\* built; inputField.toLowerCase() throws a TypeError on a value that is no
\* string, and nothing catches it
indexesAll(p, documentsToIndexes) ==
  IF \E i \in 1..Len(documentsToIndexes) : ~ IsString(documentsToIndexes[i].name)
    THEN Throw(p, [type |-> "indexesAll", documents |-> documentsToIndexes])
    ELSE /\ Begin(p, [type |-> "indexesAll", documents |-> documentsToIndexes,
                      bulkData |-> [i \in 1..Len(documentsToIndexes) |->
                                      readyToBulkElement(documentsToIndexes[i])],
                      next |-> 1, bulkCount |-> 0], "bulk")
         /\ UNCHANGED <<procs, store, bulk>>

\* filter of a sequence, order kept
RECURSIVE SelectSeqBy(_, _)
SelectSeqBy(s, keep) ==
  IF s = <<>> THEN <<>>
  ELSE (IF Head(s) \in keep THEN <<Head(s)>> ELSE <<>>) \o SelectSeqBy(Tail(s), keep)

\* FirestoreSearchEngine.indexesAllMultiField -> IndexesAll.executeMultiField
indexesAllMultiField(p, documentsToIndexes) ==
  /\ Begin(p, [type |-> "indexesAllMultiField", documents |-> documentsToIndexes,
               bulkData |-> SelectSeqBy(documentsToIndexes,
                              {d \in {documentsToIndexes[i] :
                                        i \in 1..Len(documentsToIndexes)} :
                                 hasFieldsToVectorize(d)}),
               next |-> 1, bulkCount |-> 0], "bulk")
  /\ UNCHANGED <<procs, store, bulk>>

\* the document a bulk call creates for element `document` of its bulkData
bulkDocument(call, document) ==
  IF call.type = "indexesAll"
    THEN bulkIndexDocument(document)
    ELSE multiIndexDocument(document)

bulkPath(call, document) ==
  IF call.type = "indexesAll"
    THEN document.returnedFields.indexedDocumentPath
    ELSE document.indexedDocumentPath

\* IndexesAll.cleanOldIndexes: the writes it enqueues (no flush follows)
bulkCleanOldIndexes(S, path) == deleteWrites(whereIndexedDocumentPath(S, path))

\* One round of the loop of bulkWithLimitedKeywords / bulkWithMultiFieldIndexes:
\* the flush checkpoint, cleanOldIndexes, bulk.create, bulkCount++
bulkRound(p) ==
  /\ pc[p] = "bulk"
  /\ op[p].next <= Len(op[p].bulkData)
  /\ op[p].bulkCount > FlushEvery => bulk[p] = {}
  /\ LET document == op[p].bulkData[op[p].next]
         deletes == bulkCleanOldIndexes(store, bulkPath(op[p], document))
         created == withNewDocId(UsedIds \cup {w.id : w \in deletes},
                                 bulkDocument(op[p], document))
     IN /\ snap' = [snap EXCEPT ![p] = {w.id : w \in deletes}]
        /\ bulk' = [bulk EXCEPT ![p] =
                      @ \cup deletes \cup {createWrite(created)}]
        /\ op' = [op EXCEPT ![p].next = @ + 1,
                            ![p].bulkCount =
                               (IF @ > FlushEvery THEN 0 ELSE @) + 1]
  /\ UNCHANGED <<procs, store, pc, hist, pre, removed, res>>

\* the loop is over: bulk.close() is called
bulkClose(p) ==
  /\ pc[p] = "bulk"
  /\ op[p].next > Len(op[p].bulkData)
  /\ pc' = [pc EXCEPT ![p] = "close"]
  /\ UNCHANGED <<procs, store, op, snap, bulk, hist, pre, removed, res>>

(***************************************************************************)
(* Shared text utilities of the search side.                               *)
(***************************************************************************)
Min(a, b) == IF a <= b THEN a ELSE b
Max(a, b) == IF a >= b THEN a ELSE b

Reverse(s) == [i \in 1..Len(s) |-> s[Len(s) + 1 - i]]

\* fse_levenshteinDistance: row i of the matrix from row i-1 (`prev`); `cur`
\* holds matrix[i][0..Len(cur)-1]
RECURSIVE levenshteinRow(_, _, _, _)
levenshteinRow(prev, ai, b, cur) ==
  IF Len(cur) = Len(b) + 1 THEN cur
  ELSE LET j == Len(cur)
           cost == IF ai = b[j] THEN 0 ELSE 1
       IN levenshteinRow(prev, ai, b,
            Append(cur, Min(Min(prev[j + 1] + 1, cur[j] + 1), prev[j] + cost)))

RECURSIVE levenshteinRows(_, _, _, _)
levenshteinRows(a, b, i, prev) ==
  IF i > Len(a) THEN prev[Len(b) + 1]
  ELSE levenshteinRows(a, b, i + 1, levenshteinRow(prev, a[i], b, <<i>>))

fse_levenshteinDistance(a, b) ==
  levenshteinRows(a, b, 1, [j \in 1..(Len(b) + 1) |-> j - 1])

\* Array.prototype.sort with comparator (x, y) => Key(x) - Key(y): ascending
\* by Key, elements of equal key in their order of arrival (the sort is stable)
SortBy(s, Key(_)) ==
  LET before(i) ==
        Cardinality({j \in 1..Len(s) :
                       \/ Key(s[j]) < Key(s[i])
                       \/ Key(s[j]) = Key(s[i]) /\ j < i})
  IN [k \in 1..Len(s) |-> s[CHOOSE i \in 1..Len(s) : before(i) = k - 1]]

\* a Set filled in the order of `s`: each element once, at its first place
RECURSIVE uniqueInOrder(_)
uniqueInOrder(s) ==
  IF Len(s) <= 1 THEN s
  ELSE LET half == Len(s) \div 2
           front == uniqueInOrder(SubSeq(s, 1, half))
           back == uniqueInOrder(SubSeq(s, half + 1, Len(s)))
           seen == {front[i] : i \in 1..Len(front)}
       IN front \o SelectSeq(back, LAMBDA x : x \notin seen)

RECURSIVE Flatten(_)
Flatten(ss) == IF ss = <<>> THEN <<>> ELSE Head(ss) \o Flatten(Tail(ss))

\* String.prototype.split(" ")
RECURSIVE split(_)
split(s) ==
  IF \A i \in 1..Len(s) : s[i] # " " THEN <<s>>
  ELSE LET k == CHOOSE i \in 1..Len(s) :
                  s[i] = " " /\ \A j \in 1..(i - 1) : s[j] # " "
       IN <<SubSeq(s, 1, k - 1)>> \o split(SubSeq(s, k + 1, Len(s)))

\* fse_generateCharArray with its default startIndex and maxLength
startIndex == 3
maxLength == 8

\* the fragments of one text: its prefixes longer than startIndex, up to maxLength
prefixesOf(text) ==
  LET last == Min(Len(text), maxLength) IN
  IF last <= startIndex THEN <<>>
  ELSE [k \in 1..(last - startIndex) |-> toLowerCase(SubSeq(text, 1, k + startIndex))]

fse_generateCharArray(input) ==
  LET words == split(input) IN
  Flatten([w \in 1..Len(words) |-> prefixesOf(trim(words[w]))])
    \o prefixesOf(input)

\* fse_generateTypos: the AZERTY neighbours of a key
keyboardNeighbors ==
  [a |-> <<"z","q","s">>, z |-> <<"a","e","s">>, e |-> <<"z","r","d">>,
   r |-> <<"e","t","f">>, t |-> <<"r","y","g">>, y |-> <<"t","u","h">>,
   u |-> <<"y","i","j">>, i |-> <<"u","o","k">>, o |-> <<"i","p","l">>,
   p |-> <<"o","m">>,     q |-> <<"a","s","w">>, s |-> <<"a","z","d","q">>,
   d |-> <<"s","e","f">>, f |-> <<"d","r","g">>, g |-> <<"f","t","h">>,
   h |-> <<"g","y","j">>, j |-> <<"h","u","k">>, k |-> <<"j","i","l">>,
   l |-> <<"k","o","m">>, m |-> <<"l","p">>]

neighborsOf(c) == IF c \in DOMAIN keyboardNeighbors THEN keyboardNeighbors[c] ELSE <<>>

segmentSizes == <<4, 5, 6>>

\* fse_generateTypos: the typos of one segment, in the order they are added
segmentTypos(segment) ==
  LET firstLetter == segment[1]
      lastLetter == segment[Len(segment)]
      first == neighborsOf(firstLetter)
      last == neighborsOf(lastLetter)
  IN [n \in 1..Len(first) |-> <<first[n]>> \o Tail(segment)]
       \o [n \in 1..Len(first) |-> <<first[n]>> \o segment]
       \o <<Tail(segment)>>
       \o (IF lastLetter \in DOMAIN keyboardNeighbors
             THEN [n \in 1..Len(last) |->
                     SubSeq(segment, 1, Len(segment) - 1) \o <<last[n]>>]
                  \o [n \in 1..Len(last) |-> segment \o <<last[n]>>]
                  \o <<SubSeq(segment, 1, Len(segment) - 1)>>
             ELSE <<>>)

\* fse_generateTypos (inputs no longer than its maxLength): the Set of typos,
\* as Array.from lists it
fse_generateTypos(input) ==
  uniqueInOrder(Flatten(
    [z \in 1..Len(segmentSizes) |->
       LET size == segmentSizes[z] IN
       IF Len(input) < size THEN <<>>
       ELSE Flatten([start \in 1..(Len(input) - size + 1) |->
                       segmentTypos(SubSeq(input, start, start + size - 1))])]))

(***************************************************************************)
(* Vector search (Search.search) and its ranking.                          *)
(***************************************************************************)
\* the cosine distances findNearest may report, and the field weights
DistVals == {0, 30, 31, 100, 120}
Weights == {0, 5, 10, 20}

\* all the orders in which the elements of a set may be listed
Perms(S) ==
  {f \in [1..Cardinality(S) -> S] : \A e \in S : \E i \in 1..Cardinality(S) : f[i] = e}

\* doc.data(): the content of an entry
data(e) == e.id.data

\* the vector field searched: `_vector_<fieldFilter>`, else "vectors"
vectorFieldName(props) ==
  IF props.fieldFilter # "" THEN props.fieldFilter ELSE "vectors"

vectorValue(e, name) == IF name = "vectors" THEN e.vectors ELSE e.fvec[name]

\* the embedded texts a nearest-neighbour query on field `name` measures
nearestTexts(S, name) ==
  {vectorValue(e, name).src : e \in {x \in S : vectorValue(x, name) # NoVec}}

\* the distance tables the store may answer with: an embedding is at
\* distance 0 of itself
DistTables(texts, queryVector) ==
  {d \in [texts -> DistVals] :
     \A t \in texts : fse_vectorizeText(t) = queryVector => d[t] = 0}

\* findNearest({vectorField, queryVector, limit, COSINE, distanceResultField}):
\* the snapshots it may return: the documents that hold the vector field, by
\* ascending distance (equal distances in any order), the first `limit` of
\* them, each with its distance
findNearest(S, name, dist, limit) ==
  LET found == {e \in S : vectorValue(e, name) # NoVec}
      byDistance == {o \in Perms(found) :
                       \A i \in 1..(Len(o) - 1) :
                         dist[vectorValue(o[i], name).src]
                           <= dist[vectorValue(o[i + 1], name).src]}
  IN {[i \in 1..Min(limit, Len(o)) |->
         [distance |-> dist[vectorValue(o[i], name).src]] @@ data(o[i])] :
      o \in byDistance}

\* (mutant) no uniqueDocs check: every document of the snapshot is kept
uniqueDocs_keepAll(docs) == docs

\* the uniqueDocs check: the first document of each indexedDocumentPath
uniqueDocs(docs) ==
  LET kept == {i \in 1..Len(docs) :
                 \A j \in 1..(i - 1) :
                   docs[j].indexedDocumentPath # docs[i].indexedDocumentPath}
  IN [k \in 1..Cardinality(kept) |->
        docs[CHOOSE i \in kept : Cardinality({j \in kept : j < i}) = k - 1]]

\* the part of the query fse_rankResults reverses: its first 10 characters
RankPrefix == 10

\* (mutant) a larger vector distance lowers the score
finalScore_nearerIsWorse(result, query) ==
  LET lowered == toLowerCase(query)
      textSimilarityScore ==
        fse_levenshteinDistance(lowered, toLowerCase(result.fieldValue))
      textSimilarityScoreReverse ==
        fse_levenshteinDistance(
          Reverse(SubSeq(lowered, 1, Min(Len(lowered), RankPrefix))),
          toLowerCase(result.fieldValue))
  IN 30 * (textSimilarityScore + textSimilarityScoreReverse)
       + 970 - 97 * result.distance

\* fse_rankResults: finalScore, in thousandths
finalScore(result, query) ==
  LET lowered == toLowerCase(query)
      textSimilarityScore ==
        fse_levenshteinDistance(lowered, toLowerCase(result.fieldValue))
      textSimilarityScoreReverse ==
        fse_levenshteinDistance(
          Reverse(SubSeq(lowered, 1, Min(Len(lowered), RankPrefix))),
          toLowerCase(result.fieldValue))
  IN 30 * (textSimilarityScore + textSimilarityScoreReverse)
       + 970 + 97 * result.distance

\* (mutant) fse_rankResults without its trailing reverse()
fse_rankResults_noReverse(results, query) ==
  SortBy([i \in 1..Len(results) |->
            [finalScore |-> finalScore(results[i], query)] @@ results[i]],
         LAMBDA r : 0 - r.finalScore)

\* fse_rankResults: map, sort((a, b) => b.finalScore - a.finalScore), reverse
fse_rankResults(results, query) ==
  Reverse(SortBy([i \in 1..Len(results) |->
                    [finalScore |-> finalScore(results[i], query)] @@ results[i]],
                 LAMBDA r : 0 - r.finalScore))

\* data.distance ? 1 - data.distance : 1.0, in hundredths
relevanceScore(distance) == IF distance # 0 THEN 100 - distance ELSE 100

\* Search.search from the snapshot on: uniqueDocs, _relevanceScore, the
\* field's original text in multi-field mode, ranking
Search_search(snapshot, props) ==
  LET docs == uniqueDocs(snapshot)
      results ==
        [i \in 1..Len(docs) |->
           [relevanceScore |-> relevanceScore(docs[i].distance)]
             @@ [docs[i] EXCEPT !.fieldValue =
                   IF props.fieldFilter # "" THEN docs[i].original[props.fieldFilter]
                   ELSE @]]
  IN IF snapshot = <<>> THEN <<>>
     ELSE IF props.fuzzySearch # FALSE
       THEN fse_rankResults(results, props.fieldValue)
       ELSE SortBy(results, LAMBDA r : 0 - r.relevanceScore)

\* Search constructor: props.limit when given (0 stands for none), else 10
Search_limit(props) == IF props.limit = 0 THEN 10 ELSE props.limit

\* typeof t === "number" && t > 0 && t < 1
validThreshold(t) == t.number /\ t.value > 0 /\ t.value < 100

\* (mutant) the configured value is never looked at
Search_distanceThreshold_noConfig(cfg, props) ==
  IF validThreshold(props.distanceThreshold) THEN props.distanceThreshold.value
  ELSE DefaultDistanceThreshold

\* Search constructor: this.distanceThreshold
Search_distanceThreshold(cfg, props) ==
  IF validThreshold(props.distanceThreshold) THEN props.distanceThreshold.value
  ELSE IF validThreshold(cfg.distanceThreshold) THEN cfg.distanceThreshold.value
  ELSE DefaultDistanceThreshold

(***************************************************************************)
(* Multi-field search.                                                     *)
(***************************************************************************)
\* Object.keys(props.searchConfig)
fieldNames == <<"name", "desc">>

\* searchMultiField: the props of the search of one field
fieldSearchProps(props, fieldName) ==
  [fieldValue |-> props.searchText,
   fuzzySearch |-> props.searchConfig[fieldName].fuzzySearch,
   limit |-> IF props.limit = 0 THEN 20 ELSE props.limit,
   distanceThreshold |-> NotANumber,
   fieldFilter |-> fieldName]

\* fieldConfig.weight || 1.0, in tenths
fieldWeight(weight) == IF weight = 0 THEN 10 ELSE weight

\* searchMultiField: weightedResults of one field; the weighted relevance
\* (result._relevanceScore || 1.0) * (fieldConfig.weight || 1.0) is in thousandths
weightedResults(fieldResults, fieldName, fieldConfig) ==
  [i \in 1..Len(fieldResults) |->
     [fieldMatch |-> fieldName,
      fieldWeight |-> fieldWeight(fieldConfig.weight),
      relevanceScore |->
        (IF fieldResults[i].relevanceScore = 0 THEN 100
         ELSE fieldResults[i].relevanceScore) * fieldWeight(fieldConfig.weight)]
       @@ fieldResults[i]]

matchedField(result) ==
  [field |-> result.fieldMatch, weight |-> result.fieldWeight,
   score |-> result.relevanceScore]

\* combineMultiFieldResults: the Map by indexedDocumentPath, in insertion order
RECURSIVE groupedResults(_)
groupedResults(results) ==
  IF results = <<>> THEN <<>>
  ELSE LET grouped == groupedResults(SubSeq(results, 1, Len(results) - 1))
           result == results[Len(results)]
           at == {k \in 1..Len(grouped) :
                    grouped[k].indexedDocumentPath = result.indexedDocumentPath}
       IN IF at # {}
            THEN [k \in 1..Len(grouped) |->
                    IF k \in at
                      THEN [grouped[k] EXCEPT
                              !.relevanceScore = Max(@, result.relevanceScore),
                              !.matchedFields = Append(@, matchedField(result))]
                      ELSE grouped[k]]
            ELSE Append(grouped,
                        [matchedFields |-> <<matchedField(result)>>] @@ result)

\* combineMultiFieldResults: sort by descending _relevanceScore, slice(0, limit)
combineMultiFieldResults(results, limit) ==
  LET sorted == SortBy(groupedResults(results), LAMBDA r : 0 - r.relevanceScore)
  IN SubSeq(sorted, 1, Min(limit, Len(sorted)))

\* searchMultiField from the snapshots on (snapshots[f] is what findNearest
\* returned for field f)
searchMultiField(snapshots, props) ==
  combineMultiFieldResults(
    Flatten([n \in 1..Len(fieldNames) |->
               weightedResults(
                 Search_search(snapshots[fieldNames[n]],
                               fieldSearchProps(props, fieldNames[n])),
                 fieldNames[n], props.searchConfig[fieldNames[n]])]),
    IF props.limit = 0 THEN 20 ELSE props.limit)

(***************************************************************************)
(* The lexical (keyword) index and its two search versions.                *)
(***************************************************************************)
\* keywords per index document
chunkSize == 800

\* Indexes.saveWithLimitedKeywords (keyword version): one document per chunk
\* of keywords, none when there is no keyword
keywordIndexDocuments(props) ==
  LET keywords == fse_generateTypos(props.inputField)
      chunks == (Len(keywords) + chunkSize - 1) \div chunkSize
  IN {[indexedDocumentPath |-> props.returnedFields.indexedDocumentPath,
       vectors |-> NoVec,
       fieldValue |-> NoText,
       fvec |-> NoFieldVecs,
       original |-> NoOriginals,
       search_keywords |->
         SubSeq(keywords, (j - 1) * chunkSize + 1, Min(j * chunkSize, Len(keywords))),
       title |-> props.returnedFields.title] : j \in 1..chunks}

\* where("search_keywords", "array-contains-any", values)
arrayContainsAny(S, values) ==
  {e \in S : \E i \in 1..Len(e.search_keywords), j \in 1..Len(values) :
               e.search_keywords[i] = values[j]}

\* const { search_keywords, ...rest } = data
rest(doc) == [k \in (DOMAIN doc) \ {"search_keywords"} |-> doc[k]]

\* first version, the body of search_keywords.forEach for one keyword, folded
\* over the words of the query: isCloseEnough, closeRelevance, distanceTotal
RECURSIVE keywordVerdict(_, _)
keywordVerdict(words, keyword) ==
  IF words = <<>>
    THEN [isCloseEnough |-> FALSE, closeRelevance |-> 0, distanceTotal |-> 0]
  ELSE LET v == keywordVerdict(SubSeq(words, 1, Len(words) - 1), keyword)
           distance == fse_levenshteinDistance(words[Len(words)], keyword)
       IN [isCloseEnough |-> v.isCloseEnough \/ distance <= 2,
           closeRelevance |->
             IF distance <= 2
               THEN (IF v.closeRelevance = 0 THEN distance
                     ELSE Min(distance, v.closeRelevance))
               ELSE v.closeRelevance,
           distanceTotal |-> v.distanceTotal + distance]

\* (mutant) a keyword is accepted whatever its total distance
keywordAccepted_noTotal(words, keyword) ==
  keywordVerdict(words, keyword).isCloseEnough

keywordAccepted(words, keyword) ==
  LET v == keywordVerdict(words, keyword) IN
  v.isCloseEnough /\ v.distanceTotal <= 6

\* first version: the results pushed while the snapshot is walked
RECURSIVE lexicalResults(_, _)
lexicalResults(docs, fieldValue) ==
  IF docs = <<>> THEN <<>>
  ELSE LET results == lexicalResults(SubSeq(docs, 1, Len(docs) - 1), fieldValue)
           doc == docs[Len(docs)]
           words == split(fieldValue)
           accepted == {i \in 1..Len(doc.search_keywords) :
                          keywordAccepted(words, doc.search_keywords[i])}
           first == CHOOSE i \in accepted : \A j \in accepted : i <= j
       IN IF /\ accepted # {}
             /\ \A k \in 1..Len(results) :
                  results[k].doc.indexedDocumentPath # doc.indexedDocumentPath
            THEN Append(results,
                   [doc |-> rest(doc),
                    relevance |->
                      keywordVerdict(words, doc.search_keywords[first]).closeRelevance])
            ELSE results

\* first version of the lexical Search.search, from the snapshot on
lexicalSearch(snapshot, props) ==
  LET sorted == SortBy(lexicalResults(snapshot, props.fieldValue),
                       LAMBDA r : r.relevance)
      limit == IF props.limit = 0 THEN 20 ELSE props.limit
  IN [i \in 1..Min(limit, Len(sorted)) |-> sorted[i].doc]

\* second version of the lexical Search.search, from the snapshot on
RECURSIVE lexicalSearch2(_, _)
lexicalSearch2(docs, props) ==
  IF docs = <<>> THEN <<>>
  ELSE LET results == lexicalSearch2(SubSeq(docs, 1, Len(docs) - 1), props)
           doc == docs[Len(docs)]
           words == split(props.fieldValue)
           isCloseEnough ==
             \E i \in 1..Len(doc.search_keywords), w \in 1..Len(words) :
               fse_levenshteinDistance(words[w], doc.search_keywords[i]) <= 2
       IN IF /\ isCloseEnough
             /\ \A k \in 1..Len(results) :
                  results[k].indexedDocumentPath # doc.indexedDocumentPath
            THEN Append(results, rest(doc))
            ELSE results

(***************************************************************************)
(* The keyword version of indexes(): Indexes.execute generates the typos   *)
(* of the input field and saves them in chunks.                            *)
(***************************************************************************)
\* Indexes.execute (keyword version): generateTypos throws on an input longer
\* than props.wordMaxLength; else saveWithLimitedKeywords begins with
\* cleanOldIndexes
indexesLegacy(p, props) ==
  IF Len(props.inputField) > props.wordMaxLength
    THEN Throw(p, [type |-> "indexesLegacy", props |-> props])
    ELSE /\ Begin(p, [type |-> "indexesLegacy", props |-> props,
                      keywords |-> fse_generateTypos(props.inputField)], "clean")
         /\ UNCHANGED <<procs, store, bulk>>

\* Indexes.saveWithLimitedKeywords (keyword version) after cleanOldIndexes:
\* one bulk.create per chunk of keywords, then bulk.close() is awaited
legacySaveWithLimitedKeywords(p) ==
  /\ pc[p] = "create"
  /\ op[p].type = "indexesLegacy"
  /\ bulk' = [bulk EXCEPT ![p] = @ \cup
       {createWrite(withNewDocId(UsedIds, d)) : d \in keywordIndexDocuments(op[p].props)}]
  /\ pc' = [pc EXCEPT ![p] = "close"]
  /\ UNCHANGED <<procs, store, op, snap, hist, pre, removed, res>>

(***************************************************************************)
(* The indexing life cycle with one caller.                                *)
(***************************************************************************)
InitWith(P) ==
  /\ procs = P
  /\ store = {}
  /\ pc = [p \in P |-> "idle"]
  /\ op = [p \in P |-> NoCall]
  /\ snap = [p \in P |-> {}]
  /\ bulk = [p \in P |-> {}]
  /\ hist = [p \in P |-> NoCall]
  /\ pre = [p \in P |-> {}]
  /\ removed = {}
  /\ res = [p \in P |-> <<>>]
  /\ ModelLoaded

Init == InitWith({1})

Next ==
  /\ UNCHANGED embedVars
  /\ \E p \in procs :
    \/ \E props \in IndexesProps : indexes(p, props)
    \/ \E props \in IndexesProps : removeIndexes(p, props)
    \/ cleanOldIndexes(p)
    \/ flushed(p)
    \/ saveWithLimitedKeywords(p)
    \/ closed(p)
    \/ bulkWriterCommit(p)
    \/ crash(p)
    \/ \E docs \in SeqsUpTo(BulkDocs, MaxBulk) : indexesAll(p, docs)
    \/ \E docs \in SeqsUpTo(MultiDocs, MaxBulk) : indexesAllMultiField(p, docs)
    \/ bulkRound(p)
    \/ bulkClose(p)
    \/ \E props \in LegacyProps : indexesLegacy(p, props)
    \/ legacySaveWithLimitedKeywords(p)

Spec == Init /\ [][Next]_vars

(***************************************************************************)
(* Index calls with invalid input: an empty input field, an empty          *)
(* indexedDocumentPath, no field configuration.                            *)
(***************************************************************************)
ValidationProps ==
  { [inputField |-> TClos, returnedFields |-> [indexedDocumentPath |-> PathA, title |-> "t1"]],
    [inputField |-> TClod, returnedFields |-> [indexedDocumentPath |-> PathA, title |-> "t2"]],
    [inputField |-> NoText, returnedFields |-> [indexedDocumentPath |-> PathA, title |-> "t1"]],
    [inputField |-> TClod, returnedFields |-> [indexedDocumentPath |-> "", title |-> "t2"]] }

\* FirestoreSearchEngineMultiIndexesProps: inputFields is given by its keys
MultiIndexesProps ==
  { [inputFields |-> Fields,
     returnedFields |-> [indexedDocumentPath |-> PathA, name |-> TClos,
                         desc |-> TClod, title |-> "t1"]],
    [inputFields |-> {},
     returnedFields |-> [indexedDocumentPath |-> PathB, name |-> TClos,
                         desc |-> TClod, title |-> "t2"]] }

\* FirestoreSearchEngine.indexesMultiField: validation of inputFields, then
\* Indexes.indexes -> MultiIndexes.indexes
indexesMultiField(p, props) ==
  IF props.inputFields = {}
    THEN Throw(p, [type |-> "indexesMultiField", props |-> props])
    ELSE /\ Begin(p, [type |-> "indexesMultiField", props |-> props], "clean")
         /\ UNCHANGED <<procs, store, bulk>>

\* MultiIndexes.indexes once the old entries are deleted: the new entry is
\* created and bulk.close() is awaited
multiIndexerCreate(p) ==
  /\ pc[p] = "create"
  /\ op[p].type = "indexesMultiField"
  /\ bulk' = [bulk EXCEPT ![p] = @ \cup
       {createWrite(withNewDocId(UsedIds, multiIndexDocument(op[p].props.returnedFields)))}]
  /\ pc' = [pc EXCEPT ![p] = "close"]
  /\ UNCHANGED <<procs, store, op, snap, hist, pre, removed, res>>

NextValid ==
  /\ UNCHANGED embedVars
  /\ \E p \in procs :
    \/ \E props \in ValidationProps : indexes(p, props)
    \/ \E props \in MultiIndexesProps : indexesMultiField(p, props)
    \/ cleanOldIndexes(p)
    \/ flushed(p)
    \/ saveWithLimitedKeywords(p)
    \/ multiIndexerCreate(p)
    \/ closed(p)
    \/ bulkWriterCommit(p)

SpecValid == Init /\ [][NextValid]_vars

(***************************************************************************)
(* Bulk index calls over lists that hold a document with a malformed       *)
(* indexed field.                                                          *)
(***************************************************************************)
MalformedBulkDocs ==
  { [indexedDocumentPath |-> PathA, name |-> TClod, title |-> "t2"],
    [indexedDocumentPath |-> PathB, name |-> Undefined, title |-> "t1"] }

MalformedMultiDocs ==
  { [indexedDocumentPath |-> PathA, name |-> TClos, desc |-> TClod, title |-> "t1"],
    [indexedDocumentPath |-> PathB, name |-> Undefined, desc |-> Undefined, title |-> "t2"] }

NextBulk ==
  /\ UNCHANGED embedVars
  /\ \E p \in procs :
    \/ \E docs \in SeqsUpTo(MalformedBulkDocs, MaxBulk) : indexesAll(p, docs)
    \/ \E docs \in SeqsUpTo(MalformedMultiDocs, MaxBulk) : indexesAllMultiField(p, docs)
    \/ bulkRound(p)
    \/ bulkClose(p)
    \/ closed(p)
    \/ bulkWriterCommit(p)

SpecBulk == Init /\ [][NextBulk]_vars

(***************************************************************************)
(* Multi-field bulk indexing of lists in which a document has no field to  *)
(* vectorize: too short, too long, no string; or a text that is within the *)
(* bounds only once its surrounding blanks are trimmed.                    *)
(***************************************************************************)
TPadded == <<" ", " ">> \o toLowerCase(TClos) \o <<" ", " ">>

SkipDocs ==
  { [indexedDocumentPath |-> PathA, name |-> TClos, desc |-> TClod, title |-> "t1"],
    [indexedDocumentPath |-> PathB, name |-> <<"c","l">>, desc |-> TFleuri, title |-> "t2"],
    [indexedDocumentPath |-> PathB, name |-> Undefined, desc |-> NoText, title |-> "t1"],
    [indexedDocumentPath |-> PathB, name |-> TPadded, desc |-> Undefined, title |-> "t2"] }

NextSkip ==
  /\ UNCHANGED embedVars
  /\ \E p \in procs :
       \/ \E docs \in SeqsUpTo(SkipDocs, MaxBulk) : indexesAllMultiField(p, docs)
       \/ bulkRound(p)
       \/ bulkClose(p)
       \/ closed(p)
       \/ bulkWriterCommit(p)

SpecSkip == Init /\ [][NextSkip]_vars

(***************************************************************************)
(* Indexing with an embedding provider that fails: failing is the set of   *)
(* texts for which fse_vectorizeText rejects.                              *)
(***************************************************************************)
Providers == {{}, {TClod}}

EmbeddingError(call) == [type |-> "threw", of |-> call, error |-> "embedding"]

\* the promise of a call rejects with the provider's error
ThrowEmbedding(p, call) ==
  /\ pc[p] = "idle"
  /\ op' = [op EXCEPT ![p] = EmbeddingError(call)]
  /\ hist' = [hist EXCEPT ![p] = NoCall]
  /\ UNCHANGED <<procs, store, pc, snap, bulk, pre, removed, res>>

\* (mutant) the old entries of the path are deleted before the text is embedded
executeSingleField_cleanFirst(p, props, failing) ==
  IF Len(props.inputField) # 0 /\ props.inputField \in failing
    THEN /\ pc[p] = "idle"
         /\ op' = [op EXCEPT ![p] = EmbeddingError([type |-> "indexes", props |-> props])]
         /\ hist' = [hist EXCEPT ![p] = NoCall]
         /\ store' = {e \in store : e.indexedDocumentPath
                                      # props.returnedFields.indexedDocumentPath}
         /\ UNCHANGED <<procs, pc, snap, bulk, pre, removed, res>>
    ELSE indexes(p, props)

\* Indexes.executeSingleField: the text is embedded, then saveWithLimitedKeywords
executeSingleField(p, props, failing) ==
  IF Len(props.inputField) # 0 /\ props.inputField \in failing
    THEN ThrowEmbedding(p, [type |-> "indexes", props |-> props])
    ELSE indexes(p, props)

FailBulkDocs ==
  { [indexedDocumentPath |-> PathA, name |-> TClod, title |-> "t2"],
    [indexedDocumentPath |-> PathB, name |-> toLowerCase(TClos), title |-> "t2"] }

\* IndexesAll.execute: every element is embedded in turn, then
\* bulkWithLimitedKeywords
execute(p, documentsToIndexes, failing) ==
  IF \E i \in 1..Len(documentsToIndexes) :
       /\ \A j \in 1..i : IsString(documentsToIndexes[j].name)
       /\ documentsToIndexes[i].name \in failing
    THEN ThrowEmbedding(p, [type |-> "indexesAll", documents |-> documentsToIndexes])
    ELSE indexesAll(p, documentsToIndexes)

FailMultiDocs ==
  { [indexedDocumentPath |-> PathA, name |-> TClos, desc |-> TClod, title |-> "t1"],
    [indexedDocumentPath |-> PathB, name |-> TClos, desc |-> NoText, title |-> "t1"] }

\* IndexesAll.executeMultiField: the fields of every element are embedded in
\* turn (batchVectorize), then bulkWithMultiFieldIndexes
executeMultiField(p, documentsToIndexes, failing) ==
  IF \E i \in 1..Len(documentsToIndexes) : \E f \in Fields :
       /\ fieldsToVectorize(documentsToIndexes[i])[f] # NoText
       /\ fieldsToVectorize(documentsToIndexes[i])[f] \in failing
    THEN ThrowEmbedding(p, [type |-> "indexesAllMultiField",
                            documents |-> documentsToIndexes])
    ELSE indexesAllMultiField(p, documentsToIndexes)

NextFail ==
  /\ UNCHANGED embedVars
  /\ \E p \in procs :
    \/ \E props \in IndexesProps, failing \in Providers :
         executeSingleField(p, props, failing)
    \/ \E docs \in SeqsUpTo(FailBulkDocs, MaxBulk), failing \in Providers :
         execute(p, docs, failing)
    \/ \E docs \in SeqsUpTo(FailMultiDocs, MaxBulk), failing \in Providers :
         executeMultiField(p, docs, failing)
    \/ cleanOldIndexes(p)
    \/ flushed(p)
    \/ saveWithLimitedKeywords(p)
    \/ closed(p)
    \/ bulkWriterCommit(p)
    \/ bulkRound(p)
    \/ bulkClose(p)

SpecFail == Init /\ [][NextFail]_vars

(***************************************************************************)
(* The search calls.  A search reads the collection and leaves it as it    *)
(* is, so two searches in a row see the same collection: each caller's     *)
(* searches are taken after a call of another kind.                        *)
(***************************************************************************)
Queries == {TClod, toLowerCase(TClos)}
Limits == {0, 1, 2}

\* FirestoreSearchEngineSearchProps of search()
SearchProps ==
  [fieldValue : Queries, limit : Limits, fuzzySearch : BOOLEAN, fieldFilter : {""},
   distanceThreshold : {NotANumber}]

\* FirestoreSearchEngineMultiSearchProps of searchMultiField()
SearchConfigs ==
  { [name |-> [weight |-> 10, fuzzySearch |-> TRUE],
     desc |-> [weight |-> 5, fuzzySearch |-> FALSE]],
    [name |-> [weight |-> 5, fuzzySearch |-> FALSE],
     desc |-> [weight |-> 0, fuzzySearch |-> TRUE]],
    [name |-> [weight |-> 20, fuzzySearch |-> TRUE],
     desc |-> [weight |-> 10, fuzzySearch |-> TRUE]] }

MultiSearchProps == [searchText : Queries, limit : Limits, searchConfig : SearchConfigs]

\* a caller may start a search
MaySearch(p) == pc[p] = "idle" /\ op[p].type # "search"

\* what a search call does to the bookkeeping
Searched(p, call, results) ==
  /\ op' = [op EXCEPT ![p] = call]
  /\ res' = [res EXCEPT ![p] = results]
  /\ hist' = [hist EXCEPT ![p] = op[p]]
  /\ UNCHANGED <<procs, store, pc, snap, bulk, pre, removed>>

\* FirestoreSearchEngine.search -> new Search(config, props).execute()
\* (vector version) of an engine built with the configuration `cfg`
searchWith(p, cfg, props) ==
  /\ MaySearch(p)
  /\ Len(props.fieldValue) # 0
  /\ LET name == vectorFieldName(props)
         queryVector == fse_vectorizeText(props.fieldValue)
     IN \E dist \in DistTables(nearestTexts(store, name), queryVector) :
          \E snapshot \in findNearest(store, name, dist, Search_limit(props)) :
            Searched(p, [type |-> "search", kind |-> "vector", props |-> props,
                         config |-> cfg,
                         distanceThreshold |-> Search_distanceThreshold(cfg, props),
                         snapshot |-> snapshot],
                     Search_search(snapshot, props))

search(p, props) == searchWith(p, config, props)

\* (mutant) searchMultiField without its try/catch
caughtFields_none(failed) == {}

\* searchMultiField: the fields whose failed search is caught (and logged)
caughtFields(failed) == failed

\* FirestoreSearchEngine.searchMultiField; the searches of the fields in
\* `failed` throw (the embedding or the store fails) and add no result
searchMultiFieldCall(p, props) ==
  /\ MaySearch(p)
  /\ Len(props.searchText) # 0
  /\ LET queryVector == fse_vectorizeText(props.searchText)
         texts == UNION {nearestTexts(store, f) : f \in Fields}
     IN \E failed \in SUBSET Fields :
          \E dist \in DistTables(texts, queryVector) :
            \E snapshots \in
                 [Fields -> {<<>>} \cup UNION {findNearest(store, f, dist,
                                                 Search_limit(fieldSearchProps(props, f))) :
                                               f \in Fields}] :
              /\ \A f \in Fields :
                   IF f \in failed THEN snapshots[f] = <<>>
                   ELSE snapshots[f] \in findNearest(store, f, dist,
                                           Search_limit(fieldSearchProps(props, f)))
              /\ IF failed \ caughtFields(failed) # {}
                   THEN Throw(p, [type |-> "searchMultiField", props |-> props])
                   ELSE Searched(p, [type |-> "search", kind |-> "multi", props |-> props,
                                     snapshots |-> snapshots, failed |-> failed],
                                 searchMultiField(snapshots, props))

\* Search.execute, lexical versions: the query and its snapshot, in the
\* order the store lists it; the query fails when there is no fragment
lexicalSnapshots(S, fieldValue) ==
  {[i \in 1..Len(o) |-> data(o[i])] :
     o \in Perms(arrayContainsAny(S, fse_generateCharArray(fieldValue)))}

searchLexical(p, props) ==
  /\ MaySearch(p)
  /\ fse_generateCharArray(props.fieldValue) # <<>>
  /\ \E snapshot \in lexicalSnapshots(store, props.fieldValue) :
       Searched(p, [type |-> "search", kind |-> "lexical", props |-> props,
                    snapshot |-> snapshot],
                lexicalSearch(snapshot, props))

searchLexical2(p, props) ==
  /\ MaySearch(p)
  /\ fse_generateCharArray(props.fieldValue) # <<>>
  /\ \E snapshot \in lexicalSnapshots(store, props.fieldValue) :
       Searched(p, [type |-> "search", kind |-> "lexical2", props |-> props,
                    snapshot |-> snapshot],
                lexicalSearch2(snapshot, props))

(***************************************************************************)
(* Searching a collection that the indexing calls have filled, with        *)
(* removals, and reindexing of what was removed, in between.               *)
(***************************************************************************)
MaxStore == 2     \* most entries in the collection the searches start from

\* documentsToIndexes of the multi-field entries searched
MultiSearchDocs ==
  { [indexedDocumentPath |-> PathA, name |-> TClos, desc |-> TClod, title |-> "t1"],
    [indexedDocumentPath |-> PathB, name |-> <<"c","l">>, desc |-> TClos, title |-> "t2"] }

\* inputs of the keyword index
KeywordProps ==
  { [inputField |-> toLowerCase(TClos),
     returnedFields |-> [indexedDocumentPath |-> PathA, title |-> "t1"]],
    [inputField |-> TClod,
     returnedFields |-> [indexedDocumentPath |-> PathA, title |-> "t2"]],
    [inputField |-> toLowerCase(TClos),
     returnedFields |-> [indexedDocumentPath |-> PathB, title |-> "t1"]] }

\* the entries the indexing calls create from these inputs
IndexedEntries ==
  {singleIndexDocument(props, fse_vectorizeText(props.inputField)) : props \in IndexesProps}
    \cup {multiIndexDocument(d) : d \in {x \in MultiSearchDocs : hasFieldsToVectorize(x)}}
    \cup UNION {keywordIndexDocuments(props) : props \in KeywordProps}

InitSearch ==
  /\ procs = {1}
  /\ \E entries \in SUBSET IndexedEntries :
       /\ Cardinality(entries) <= MaxStore
       /\ store = {withNewDocId({}, e) : e \in entries}
  /\ pc = [p \in procs |-> "idle"]
  /\ op = [p \in procs |-> NoCall]
  /\ snap = [p \in procs |-> {}]
  /\ bulk = [p \in procs |-> {}]
  /\ hist = [p \in procs |-> NoCall]
  /\ pre = [p \in procs |-> {}]
  /\ removed = {}
  /\ res = [p \in procs |-> <<>>]
  /\ ModelLoaded

\* the documents indexed again here are those that were removed
Reindexed ==
  {props \in IndexesProps : props.returnedFields.indexedDocumentPath \in removed}

NextSearch ==
  /\ UNCHANGED embedVars
  /\ \E p \in procs :
    \/ \E props \in SearchProps : search(p, props)
    \/ \E props \in MultiSearchProps : searchMultiFieldCall(p, props)
    \/ \E props \in SearchProps : searchLexical(p, props)
    \/ \E props \in SearchProps : searchLexical2(p, props)
    \/ \E props \in Reindexed : indexes(p, props)
    \/ \E props \in IndexesProps : removeIndexes(p, props)
    \/ cleanOldIndexes(p)
    \/ flushed(p)
    \/ saveWithLimitedKeywords(p)
    \/ closed(p)
    \/ bulkWriterCommit(p)

SpecSearch == InitSearch /\ [][NextSearch]_vars

(***************************************************************************)
(* Searches with a distanceThreshold, by engines configured with one.      *)
(***************************************************************************)
ThresholdVals == {NotANumber, Number(0), Number(30), Number(100), Number(150)}

Configs == [distanceThreshold : {NotANumber, Number(50), Number(0 - 10)}]

ThresholdSearchProps ==
  [fieldValue : Queries, limit : {0, 2}, fuzzySearch : BOOLEAN, fieldFilter : {""},
   distanceThreshold : ThresholdVals]

NextThreshold ==
  /\ UNCHANGED embedVars
  /\ \E p \in procs :
    \E cfg \in Configs : \E props \in ThresholdSearchProps :
      searchWith(p, cfg, props)

SpecThreshold == InitSearch /\ [][NextThreshold]_vars

(***************************************************************************)
(* Searches ranked by fse_rankResults, with queries on both sides of the   *)
(* ten characters it destructures.                                         *)
(***************************************************************************)
TMontmartres == <<"M","o","n","t","m","a","r","t","r","e","s">>

RankSearchProps ==
  [fieldValue : {TClod, TClos, TMontmartres}, limit : {0, 1}, fuzzySearch : BOOLEAN,
   fieldFilter : {""}, distanceThreshold : {NotANumber}]

\* the documents indexed before the searches: two of them differ in letter
\* case only, so that their entries hold the same fieldValue
RankIndexesProps ==
  { [inputField |-> TClos, returnedFields |-> [indexedDocumentPath |-> PathA, title |-> "t1"]],
    [inputField |-> toLowerCase(TClos),
     returnedFields |-> [indexedDocumentPath |-> PathB, title |-> "t2"]],
    [inputField |-> TClod, returnedFields |-> [indexedDocumentPath |-> PathB, title |-> "t1"]] }

InitRank ==
  /\ procs = {1}
  /\ \E entries \in SUBSET
         {singleIndexDocument(props, fse_vectorizeText(props.inputField)) :
            props \in RankIndexesProps} :
       /\ Cardinality(entries) <= MaxStore
       /\ store = {withNewDocId({}, e) : e \in entries}
  /\ pc = [p \in procs |-> "idle"]
  /\ op = [p \in procs |-> NoCall]
  /\ snap = [p \in procs |-> {}]
  /\ bulk = [p \in procs |-> {}]
  /\ hist = [p \in procs |-> NoCall]
  /\ pre = [p \in procs |-> {}]
  /\ removed = {}
  /\ res = [p \in procs |-> <<>>]
  /\ ModelLoaded

NextRank ==
  /\ UNCHANGED embedVars
  /\ \E p \in procs : \E props \in RankSearchProps : search(p, props)

SpecRank == InitRank /\ [][NextRank]_vars

(***************************************************************************)
(* Multi-field searches of a collection that holds two multi-field         *)
(* entries, with a query that may differ from every indexed text.          *)
(***************************************************************************)
WeightedSearchProps ==
  [searchText : {TClod, TFleuri}, limit : {0}, searchConfig : SearchConfigs]

InitWeighted ==
  /\ procs = {1}
  /\ store = {withNewDocId({}, multiIndexDocument(d)) :
                d \in {x \in MultiSearchDocs : hasFieldsToVectorize(x)}}
  /\ pc = [p \in procs |-> "idle"]
  /\ op = [p \in procs |-> NoCall]
  /\ snap = [p \in procs |-> {}]
  /\ bulk = [p \in procs |-> {}]
  /\ hist = [p \in procs |-> NoCall]
  /\ pre = [p \in procs |-> {}]
  /\ removed = {}
  /\ res = [p \in procs |-> <<>>]
  /\ ModelLoaded

NextWeighted ==
  /\ UNCHANGED embedVars
  /\ \E p \in procs : \E props \in WeightedSearchProps : searchMultiFieldCall(p, props)

SpecWeighted == InitWeighted /\ [][NextWeighted]_vars

(***************************************************************************)
(* Keyword indexing of a place name and lexical searches for it, with and  *)
(* without a typing error.                                                 *)
(***************************************************************************)
TMontmartre == <<"M","o","n","t","m","a","r","t","r","e">>
TMontmatre == <<"M","o","n","t","m","a","t","r","e">>

\* the props of the keyword indexes(): wordMaxLength is generateTypos' default
TypoProps ==
  { [inputField |-> text, wordMaxLength |-> 30,
     returnedFields |-> [indexedDocumentPath |-> path, title |-> "t1"]] :
    text \in {TMontmartre, toLowerCase(TMontmartre)}, path \in {PathA, PathB} }

TypoSearchProps ==
  [fieldValue : {TMontmatre, toLowerCase(TMontmatre), TMontmartre},
   limit : {0}, fuzzySearch : {TRUE}, fieldFilter : {""},
   distanceThreshold : {NotANumber}]

NextTypo ==
  /\ UNCHANGED embedVars
  /\ \E p \in procs :
    \/ \E props \in TypoProps : indexesLegacy(p, props)
    \/ cleanOldIndexes(p)
    \/ flushed(p)
    \/ legacySaveWithLimitedKeywords(p)
    \/ closed(p)
    \/ bulkWriterCommit(p)
    \/ \E props \in TypoSearchProps : searchLexical(p, props)

SpecTypo == Init /\ [][NextTypo]_vars

(***************************************************************************)
(* Lexical searches, by both versions, with queries of one and two words.  *)
(***************************************************************************)
TClosMontmartre == toLowerCase(TClos) \o <<" ">> \o toLowerCase(TMontmartre)

LexicalSearchProps ==
  [fieldValue : {TClod, toLowerCase(TClos), TClosMontmartre}, limit : Limits,
   fuzzySearch : {TRUE}, fieldFilter : {""}, distanceThreshold : {NotANumber}]

InitLexical ==
  /\ procs = {1}
  /\ \E entries \in SUBSET UNION {keywordIndexDocuments(props) : props \in KeywordProps} :
       /\ Cardinality(entries) <= MaxStore
       /\ store = {withNewDocId({}, e) : e \in entries}
  /\ pc = [p \in procs |-> "idle"]
  /\ op = [p \in procs |-> NoCall]
  /\ snap = [p \in procs |-> {}]
  /\ bulk = [p \in procs |-> {}]
  /\ hist = [p \in procs |-> NoCall]
  /\ pre = [p \in procs |-> {}]
  /\ removed = {}
  /\ res = [p \in procs |-> <<>>]
  /\ ModelLoaded

NextLexical ==
  /\ UNCHANGED embedVars
  /\ \E p \in procs :
       \/ \E props \in LexicalSearchProps : searchLexical(p, props)
       \/ \E props \in LexicalSearchProps : searchLexical2(p, props)

SpecLexical == InitLexical /\ [][NextLexical]_vars

(***************************************************************************)
(* Two indexes() calls for one path run concurrently.  A run is followed   *)
(* from one access to the collection to the next: what a caller does in    *)
(* between touches only its own BulkWriter.  Callers is the set of the two *)
(* calls; a run state holds the collection and, per call, what pc, snap    *)
(* and bulk hold per caller.                                               *)
(***************************************************************************)
Callers == {1, 2}

runStart(S, calls) ==
  [store |-> S, call |-> calls,
   pc |-> <<"clean", "clean">>,
   snap |-> <<{}, {}>>,
   bulk |-> <<{}, {}>>]

runUsedIds(st) ==
  Ids(st.store) \cup UNION {st.snap[c] \cup writeIds(st.bulk[c]) : c \in Callers}

\* run state st after an access of call c
runWith(st, c, S, at, docs, writes) ==
  [store |-> S, call |-> st.call,
   pc |-> [st.pc EXCEPT ![c] = at],
   snap |-> [st.snap EXCEPT ![c] = docs],
   bulk |-> [st.bulk EXCEPT ![c] = writes]]

\* Indexes.saveWithLimitedKeywords once cleanOldIndexes has returned:
\* bulk.create, then bulk.close() is awaited
runCreate(st, c) ==
  runWith(st, c, st.store, "close", st.snap[c],
          {createWrite(withNewDocId(runUsedIds(st),
             singleIndexDocument(st.call[c], fse_vectorizeText(st.call[c].inputField))))})

\* cleanOldIndexes of call c: the query, the deletes enqueued; with nothing
\* found it returns and the create follows at once
runClean(st, c, docs) ==
  IF afterEnqueue([type |-> "indexes"], docs) = "create"
    THEN runCreate(runWith(st, c, st.store, "create", docs, {}), c)
    ELSE runWith(st, c, st.store, afterEnqueue([type |-> "indexes"], docs),
                 docs, deleteWrites(docs))

\* one delete of call c is committed; after the last, flush() resolves and
\* the create follows
runFlush(st, c, w) ==
  IF st.bulk[c] = {w}
    THEN runCreate(runWith(st, c, applyWrite(st.store, w), "create", st.snap[c], {}), c)
    ELSE runWith(st, c, applyWrite(st.store, w), "flush", st.snap[c], st.bulk[c] \ {w})

\* the next accesses of call c to the collection, as the run states they lead to
runSteps(st, c) ==
  CASE st.pc[c] = "clean" ->
         {runClean(st, c, whereIndexedDocumentPath(st.store,
                            st.call[c].returnedFields.indexedDocumentPath))}
    [] st.pc[c] = "flush" -> {runFlush(st, c, w) : w \in st.bulk[c]}
    [] st.pc[c] = "close" /\ st.bulk[c] # {} ->
         \* the create is committed, close() resolves, the call returns
         {runWith(st, c, applyWrite(st.store, w), "idle", {}, {}) : w \in st.bulk[c]}
    [] st.pc[c] = "close" /\ st.bulk[c] = {} ->
         {runWith(st, c, st.store, "idle", {}, {})}
    [] OTHER -> {}

\* the collections two concurrent calls may leave, over all interleavings
RECURSIVE runOutcomes(_)
runOutcomes(st) ==
  IF \A c \in Callers : st.pc[c] = "idle" THEN {canonical(st.store)}
  ELSE UNION {runOutcomes(next) : next \in UNION {runSteps(st, c) : c \in Callers}}

\* pairs of calls for one path
ConcurrentCalls ==
  {calls \in [Callers -> IndexesProps] :
     calls[1].returnedFields.indexedDocumentPath
       = calls[2].returnedFields.indexedDocumentPath}

\* two indexes() calls are started together and run to completion
indexesConcurrently(p, calls) ==
  /\ pc[p] = "idle"
  /\ LET outcomes == runOutcomes(runStart(store, calls)) IN
       /\ op' = [op EXCEPT ![p] = [type |-> "concurrent", calls |-> calls,
                                   path |-> calls[1].returnedFields.indexedDocumentPath,
                                   outcomes |-> outcomes]]
       /\ store' \in outcomes
  /\ pre' = [pre EXCEPT ![p] = store]
  /\ hist' = [hist EXCEPT ![p] = NoCall]
  /\ res' = [res EXCEPT ![p] = <<>>]
  /\ removed' = removed \ {calls[1].returnedFields.indexedDocumentPath}
  /\ UNCHANGED <<procs, pc, snap, bulk>>

InitConc ==
  /\ procs = {1}
  /\ \E entries \in SUBSET
         {singleIndexDocument(props, fse_vectorizeText(props.inputField)) :
            props \in IndexesProps} :
       /\ Cardinality(entries) <= MaxStore
       /\ store = {withNewDocId({}, e) : e \in entries}
  /\ pc = [p \in procs |-> "idle"]
  /\ op = [p \in procs |-> NoCall]
  /\ snap = [p \in procs |-> {}]
  /\ bulk = [p \in procs |-> {}]
  /\ hist = [p \in procs |-> NoCall]
  /\ pre = [p \in procs |-> {}]
  /\ removed = {}
  /\ res = [p \in procs |-> <<>>]
  /\ ModelLoaded

NextConc ==
  /\ UNCHANGED embedVars
  /\ \E p \in procs : \E calls \in ConcurrentCalls : indexesConcurrently(p, calls)

SpecConc == InitConc /\ [][NextConc]_vars

(***************************************************************************)
(* The embedding model of a process that has not vectorized yet.  Calls of *)
(* fse_vectorizeText are followed from one await to the next; the calls    *)
(* that batchVectorize starts inside Promise.all begin in one turn.        *)
(***************************************************************************)
\* the place of call c among the calls of cs, in the order they are started
rank(cs, c) == Cardinality({d \in cs : d <= c})

\* fse_vectorizeText up to its first await, for the calls cs started in one
\* turn with the text `text`: an empty text returns [] at once; otherwise
\* getEmbeddingModel returns the model held, or calls FlagEmbedding.init and
\* awaits it
startVectorize(cs, text) ==
  /\ cs # {}
  /\ \A c \in cs : vectorize[c].pc = "none"
  /\ vectorize' =
       [c \in VCalls |->
          IF c \notin cs THEN vectorize[c]
          ELSE IF Len(text) = 0 THEN [pc |-> "done", text |-> text, model |-> 0]
          ELSE IF embeddingModel # 0
            THEN [pc |-> "embed", text |-> text, model |-> embeddingModel]
            ELSE [pc |-> "init", text |-> text, model |-> inits + rank(cs, c)]]
  /\ inits' = IF Len(text) # 0 /\ embeddingModel = 0
                THEN inits + Cardinality(cs) ELSE inits
  /\ UNCHANGED embeddingModel

\* a single call, as executeSingleField and Search.search make it
vectorizeText(c, text) == startVectorize({c}, text)

\* IndexesAll.batchVectorize: Promise.all(texts.map(fse_vectorizeText)) over
\* the two fields of a document
batchVectorize(cs, text) == Cardinality(cs) = 2 /\ startVectorize(cs, text)

\* FlagEmbedding.init has resolved: embeddingModel = await ...; return it
initResolved(c) ==
  /\ vectorize[c].pc = "init"
  /\ embeddingModel' = vectorize[c].model
  /\ vectorize' = [vectorize EXCEPT ![c].pc = "embed"]
  /\ UNCHANGED inits

\* model.embed(documents, 1) and the vector is returned
embed(c) ==
  /\ vectorize[c].pc = "embed"
  /\ vectorize' = [vectorize EXCEPT ![c].pc = "done"]
  /\ UNCHANGED <<embeddingModel, inits>>

InitEmbed ==
  /\ procs = {1}
  /\ store = {}
  /\ pc = [p \in procs |-> "idle"]
  /\ op = [p \in procs |-> NoCall]
  /\ snap = [p \in procs |-> {}]
  /\ bulk = [p \in procs |-> {}]
  /\ hist = [p \in procs |-> NoCall]
  /\ pre = [p \in procs |-> {}]
  /\ removed = {}
  /\ res = [p \in procs |-> <<>>]
  /\ embeddingModel = 0
  /\ inits = 0
  /\ vectorize = [c \in VCalls |-> NotCalled]

NextEmbed ==
  /\ UNCHANGED <<procs, store, pc, op, snap, bulk, hist, pre, removed, res>>
  /\ \/ \E c \in VCalls : \E text \in {NoText, TClod} : vectorizeText(c, text)
     \/ \E cs \in SUBSET VCalls : \E text \in {TClod, TFleuri} : batchVectorize(cs, text)
     \/ \E c \in VCalls : initResolved(c)
     \/ \E c \in VCalls : embed(c)

SpecEmbed == InitEmbed /\ [][NextEmbed]_vars

(***************************************************************************)
(* The update trigger (single-field onDocumentUpdateWrapper): indexedKey   *)
(* is "name", returnedKey is <<"title">>.  An event holds the document     *)
(* before and after the update.                                            *)
(***************************************************************************)
SourceDocs ==
  [indexedDocumentPath : Paths, name : {TClos, TClod, <<"c","l">>}, title : {"t1", "t2"}]

UpdateEvents ==
  {ev \in [before : SourceDocs, after : SourceDocs] :
     /\ ev.before.indexedDocumentPath = ev.after.indexedDocumentPath
     /\ ev.before # ev.after}

\* getDiffFromUpdatedData(event.data).changes[indexedKey]: the new value of
\* the indexed field when it differs from the old one
updatedFieldValue(ev) ==
  IF ev.after.name # ev.before.name THEN ev.after.name ELSE Undefined

\* the condition under which the trigger reindexes:
\* updatedFieldValue && typeof updatedFieldValue === "string" &&
\* updatedFieldValue.length > (props.wordMinLength ?? 3)
reindexed(ev) ==
  /\ IsString(updatedFieldValue(ev))
  /\ Len(updatedFieldValue(ev)) > config.wordMinLength

\* the handler of the update trigger
onDocumentUpdate(p, ev) ==
  IF reindexed(ev)
    THEN indexes(p, [inputField |-> ev.after.name,
                     returnedFields |->
                       [indexedDocumentPath |-> ev.after.indexedDocumentPath,
                        title |-> ev.after.title]])
    ELSE /\ pc[p] = "idle"
         /\ op' = [op EXCEPT ![p] = [type |-> "updated", event |-> ev]]
         /\ UNCHANGED <<procs, store, pc, snap, bulk, hist, pre, removed, res>>

NextUpdate ==
  /\ UNCHANGED embedVars
  /\ \E p \in procs :
       \/ \E ev \in UpdateEvents : onDocumentUpdate(p, ev)
       \/ cleanOldIndexes(p)
       \/ flushed(p)
       \/ saveWithLimitedKeywords(p)
       \/ closed(p)
       \/ bulkWriterCommit(p)

SpecUpdate == Init /\ [][NextUpdate]_vars

(***************************************************************************)
(* The search endpoints the CloudFunctionsManager generates: the HTTP and  *)
(* the callable function of an instance, and the unified HTTP endpoint.    *)
(* A request is handled in one step: op[p] records the request, the        *)
(* configuration of the endpoint and whether a search was run, res[p] the  *)
(* body of the answer.                                                     *)
(***************************************************************************)
NoAuth == [uid |-> ""]
Auths == {NoAuth, [uid |-> "u1"]}
None == [enabled |-> FALSE]

\* SearchEngineInstanceConfig.endpoints
Endpoints ==
  [search : [enabled : {TRUE}, requireAuth : BOOLEAN],
   callable : [enabled : {TRUE}, requireAuth : BOOLEAN]]

\* the global configuration: searchApi (with or without an authCallback) and
\* unifiedEndpoint
GlobalConfigs ==
  [searchApi : {None} \cup [enabled : {TRUE}, authCallback : BOOLEAN],
   unifiedEndpoint : {None} \cup [enabled : {TRUE}, requireAuth : BOOLEAN]]

\* loadConfigFromModule: the unified endpoint of a searchApi requires
\* authentication exactly when the searchApi has an authCallback
loadConfigFromModule(searchApi) ==
  [searchApi |-> searchApi,
   unifiedEndpoint |->
     IF searchApi = None THEN None
     ELSE [enabled |-> searchApi.enabled, requireAuth |-> searchApi.authCallback]]

InstanceId == "places"
Requests ==
  [auth : Auths, searchValue : {Undefined, NoText, <<"c", "l">>, TClod},
   instance : {"", InstanceId, "other"}]

\* (auth) => !!auth?.uid
authCallback(auth) == auth.uid # ""

\* the search properties a handler builds from a request
requestProps(req) ==
  [fieldValue |-> req.searchValue, limit |-> 0, fuzzySearch |-> FALSE,
   fieldFilter |-> "", distanceThreshold |-> NotANumber]

\* the handler answers without searching
answered(p, endpoint, requireAuth, req, status) ==
  /\ op' = [op EXCEPT ![p] =
              [type |-> "request", endpoint |-> endpoint, requireAuth |-> requireAuth,
               request |-> req, searched |-> FALSE, status |-> status]]
  /\ res' = [res EXCEPT ![p] = <<>>]
  /\ hist' = [hist EXCEPT ![p] = NoCall]
  /\ UNCHANGED <<procs, store, pc, snap, bulk, pre, removed>>

\* the handler runs searchEngine.search and answers with its results
answeredSearch(p, endpoint, requireAuth, req) ==
  LET props == requestProps(req)
      name == vectorFieldName(props)
      queryVector == fse_vectorizeText(props.fieldValue)
  IN \E dist \in DistTables(nearestTexts(store, name), queryVector) :
       \E snapshot \in findNearest(store, name, dist, Search_limit(props)) :
         /\ op' = [op EXCEPT ![p] =
                     [type |-> "request", endpoint |-> endpoint,
                      requireAuth |-> requireAuth, request |-> req,
                      searched |-> TRUE, status |-> "200", snapshot |-> snapshot]]
         /\ res' = [res EXCEPT ![p] = Search_search(snapshot, props)]
         /\ hist' = [hist EXCEPT ![p] = NoCall]
         /\ UNCHANGED <<procs, store, pc, snap, bulk, pre, removed>>

\* onRequestWrapped / onCallWrapped: values for which [] is answered
searchValueRefused(searchValue) ==
  \/ ~ IsString(searchValue)
  \/ Len(searchValue) < config.wordMinLength

\* createHttpFunction: onRequest({region}, searchEngine.onRequestWrapped())
createHttpFunction(p, endpoints, req) ==
  /\ pc[p] = "idle"
  /\ endpoints.search.enabled
  /\ IF searchValueRefused(req.searchValue)
       THEN answered(p, "http", endpoints.search.requireAuth, req, "200")
       ELSE answeredSearch(p, "http", endpoints.search.requireAuth, req)

\* createCallableFunction: onCall({region}, searchEngine.onCallWrapped(authCallback))
createCallableFunction(p, endpoints, req) ==
  /\ pc[p] = "idle"
  /\ endpoints.callable.enabled
  /\ LET requireAuth == endpoints.callable.requireAuth
         isAuthorized == IF requireAuth THEN authCallback(req.auth) ELSE TRUE
     IN IF ~ isAuthorized
          THEN answered(p, "callable", requireAuth, req, "unauthenticated")
        ELSE IF searchValueRefused(req.searchValue)
          THEN answered(p, "callable", requireAuth, req, "200")
        ELSE answeredSearch(p, "callable", requireAuth, req)

\* createUnifiedEndpoint: the handler of the unified endpoint
createUnifiedEndpoint(p, globalConfig, req) ==
  LET unifiedConfig ==
        IF globalConfig.searchApi # None THEN globalConfig.searchApi
        ELSE globalConfig.unifiedEndpoint
      requireAuth ==
        globalConfig.unifiedEndpoint # None /\ globalConfig.unifiedEndpoint.requireAuth
      hasAuthCallback ==
        globalConfig.searchApi # None /\ globalConfig.searchApi.authCallback
  IN /\ pc[p] = "idle"
     /\ unifiedConfig.enabled
     /\ IF req.instance = "" THEN answered(p, "unified", requireAuth, req, "400")
        ELSE IF ~ IsString(req.searchValue) \/ req.searchValue = NoText
          THEN answered(p, "unified", requireAuth, req, "400")
        ELSE IF req.instance # InstanceId
          THEN answered(p, "unified", requireAuth, req, "400")
        ELSE IF hasAuthCallback /\ ~ authCallback(req.auth)
          THEN answered(p, "unified", requireAuth, req, "401")
        ELSE answeredSearch(p, "unified", requireAuth, req)

\* a request is received by one of the generated functions
NextEndpoints ==
  /\ UNCHANGED embedVars
  /\ \E p \in procs : \E req \in Requests :
       \/ \E endpoints \in Endpoints : createHttpFunction(p, endpoints, req)
       \/ \E endpoints \in Endpoints : createCallableFunction(p, endpoints, req)
       \/ \E globalConfig \in GlobalConfigs : createUnifiedEndpoint(p, globalConfig, req)
       \/ \E searchApi \in [enabled : {TRUE}, authCallback : BOOLEAN] :
            createUnifiedEndpoint(p, loadConfigFromModule(searchApi), req)

InitEndpoints ==
  /\ InitSearch
  /\ Cardinality(store) = 1

SpecEndpoints == InitEndpoints /\ [][NextEndpoints]_vars

(***************************************************************************)
(* Claims about the indexing life cycle.                                   *)
(***************************************************************************)
Returned(p, type) == pc[p] = "idle" /\ op[p].type = type

\* the collection's documents without their ids, with multiplicity
Contents(S) ==
  [d \in {e.id.data : e \in S} |-> Cardinality({e \in S : e.id.data = d})]

\* C1: when indexes() for a path has completed and is followed, with no other
\* writer, by a second indexes() for the same path, then once the second has
\* completed the collection holds exactly one entry for that path, and it
\* carries the (lower-cased) text, the vector and the display fields of the
\* second call.
C1_IdempotentReindex ==
  \A p \in procs :
    ( /\ Returned(p, "indexes")
      /\ hist[p].type = "indexes"
      /\ hist[p].props.returnedFields.indexedDocumentPath
           = op[p].props.returnedFields.indexedDocumentPath )
    => LET found == EntriesFor(store, op[p].props.returnedFields.indexedDocumentPath) IN
       /\ Cardinality(found) = 1
       /\ \A e \in found :
            /\ e.fieldValue = toLowerCase(op[p].props.inputField)
            /\ e.vectors = fse_vectorizeText(op[p].props.inputField)
            /\ e.title = op[p].props.returnedFields.title

\* C1 witness: two indexes() calls in succession for one path with different
\* texts and display fields have completed.
C1_Witness ==
  \E p \in procs :
    /\ Returned(p, "indexes")
    /\ hist[p].type = "indexes"
    /\ hist[p].props.returnedFields.indexedDocumentPath
         = op[p].props.returnedFields.indexedDocumentPath
    /\ hist[p].props.inputField # op[p].props.inputField
    /\ hist[p].props.returnedFields.title # op[p].props.returnedFields.title
    /\ Count(op[p].props.returnedFields.indexedDocumentPath) = 1

\* C2: after a bulk index call (indexesAll or indexesAllMultiField) has
\* returned, the collection holds at most one entry per indexedDocumentPath.
C2_BulkAtMostOnePerPath ==
  \A p \in procs :
    (Returned(p, "indexesAll") \/ Returned(p, "indexesAllMultiField"))
    => \A path \in Paths : Count(path) <= 1

\* C4: in indexes(), every old entry found for the path is deleted before the
\* new entry is enqueued, so the path passes through a state without entry;
\* and a path that has no entry gets one again only when an index call for it
\* (indexes, indexesAll, indexesAllMultiField, keyword indexes) commits its create while closing.
C4_OldDeletedBeforeCreate ==
  \A p \in procs :
    (op[p].type = "indexes" /\ pc[p] \in {"create", "close"})
    => snap[p] \cap Ids(store) = {}

C4_AbsentUntilIndexed ==
  \A path \in Paths :
    (Count(path) = 0 /\ Cardinality(EntriesFor(store', path)) > 0)
    => \E p \in procs :
         /\ pc[p] = "close"
         /\ op[p].type \in {"indexes", "indexesAll", "indexesAllMultiField",
                          "indexesLegacy"}
         /\ path \in PathsOf(op[p])

C4_ConsistencyWindow == [](C4_OldDeletedBeforeCreate) /\ [][C4_AbsentUntilIndexed]_vars

\* C4 witness: a path indexed by a completed indexes() was being reindexed,
\* the caller died after the old entry was deleted and before the new one was
\* created, and the path has no entry.
C4_Witness ==
  \E p \in procs :
    /\ pc[p] = "idle"
    /\ op[p].type = "crashed"
    /\ op[p].of.type = "indexes"
    /\ hist[p].type = "indexes"
    /\ hist[p].props.returnedFields.indexedDocumentPath
         = op[p].of.props.returnedFields.indexedDocumentPath
    /\ Cardinality(EntriesFor(pre[p], op[p].of.props.returnedFields.indexedDocumentPath)) = 1
    /\ Count(op[p].of.props.returnedFields.indexedDocumentPath) = 0

\* C6: once remove() for a path has returned, the collection is the one the
\* call found less the entries of that path: unchanged when the path had no
\* entry (also on a second remove() in succession), and the call does return
\* in that case (its close() has nothing to wait for).
C6_RemoveIdempotent ==
  \A p \in procs :
    /\ Returned(p, "remove")
       => Contents(store) = Contents({e \in pre[p] : e.indexedDocumentPath # op[p].path})
    /\ ( /\ op[p].type = "remove" /\ pc[p] # "idle"
         /\ EntriesFor(pre[p], op[p].props.returnedFields.indexedDocumentPath) = {} )
       => /\ Contents(store) = Contents(pre[p])
          /\ pc[p] \in {"clean", "close"}
          /\ bulk[p] = {}

\* C6 witness: a second remove() in succession for a path has returned, on a
\* collection that held other entries.
C6_Witness ==
  \E p \in procs :
    /\ Returned(p, "remove")
    /\ hist[p].type = "remove"
    /\ hist[p].path = op[p].path
    /\ EntriesFor(pre[p], op[p].path) = {}
    /\ store # {}

(***************************************************************************)
(* Claims about the search calls.                                          *)
(***************************************************************************)
SearchedKind(p, kind) == op[p].type = "search" /\ op[p].kind = kind

\* C5: once remove() for a path has completed, and until the path is indexed
\* again, the collection holds no entry for the path and no search (vector,
\* multi-field, lexical) returns it.
C5_RemovedNotFound ==
  \A path \in removed :
    /\ Count(path) = 0
    /\ \A p \in procs :
         op[p].type = "search"
         => \A i \in 1..Len(res[p]) : res[p][i].indexedDocumentPath # path

\* C5 witness: a search that follows the completed remove() of a path that
\* had an entry returns other documents.
C5_Witness ==
  \E p \in procs :
    /\ op[p].type = "search"
    /\ hist[p].type = "remove"
    /\ hist[p].path \in removed
    /\ EntriesFor(pre[p], hist[p].path) # {}
    /\ Len(res[p]) > 0

\* C7: no two results of a search (vector, multi-field, lexical) have the
\* same indexedDocumentPath, also when the collection holds several entries
\* for a path.
C7_NoDuplicatePaths ==
  \A p \in procs :
    op[p].type = "search"
    => \A i, j \in 1..Len(res[p]) :
         i # j => res[p][i].indexedDocumentPath # res[p][j].indexedDocumentPath

\* C7 witness: a vector search whose nearest-neighbour snapshot held two
\* entries of one path has returned that path.
C7_Witness ==
  \E p \in procs :
    /\ SearchedKind(p, "vector")
    /\ \E i, j \in 1..Len(op[p].snapshot) :
         /\ i < j
         /\ op[p].snapshot[i].indexedDocumentPath = op[p].snapshot[j].indexedDocumentPath
         /\ \E k \in 1..Len(res[p]) :
              res[p][k].indexedDocumentPath = op[p].snapshot[i].indexedDocumentPath

\* the limit a search call is to respect: the one requested, else the default
requestedLimit(call) ==
  IF call.props.limit # 0 THEN call.props.limit
  ELSE IF call.kind = "vector" THEN 10 ELSE 20

\* C8: the list a search returns is no longer than the requested limit (the
\* default limit when none is given), in vector, multi-field and lexical
\* search alike.
C8_AtMostLimit ==
  \A p \in procs :
    op[p].type = "search" => Len(res[p]) <= requestedLimit(op[p])

\* the relevance the claim speaks of, in thousandths: 1 - distance, times the
\* weight of the field in multi-field mode (the best over the fields that hit)
SetMax(S) == CHOOSE x \in S : \A y \in S : x >= y

hitDistances(snapshot, path) ==
  {snapshot[i].distance : i \in {k \in 1..Len(snapshot) :
                                   snapshot[k].indexedDocumentPath = path}}

claimedRelevance(call, result) ==
  IF call.kind = "vector" THEN 10 * (100 - result.distance)
  ELSE SetMax(UNION {{(100 - d) * call.props.searchConfig[f].weight :
                        d \in hitDistances(call.snapshots[f], result.indexedDocumentPath)} :
                     f \in Fields})

firstHit(snapshot, path) ==
  snapshot[CHOOSE i \in 1..Len(snapshot) :
             /\ snapshot[i].indexedDocumentPath = path
             /\ \A j \in 1..(i - 1) : snapshot[j].indexedDocumentPath # path]

carriedScore(call, path) ==
  SetMax({(IF firstHit(call.snapshots[f], path).distance \in {0, 100} THEN 100
           ELSE 100 - firstHit(call.snapshots[f], path).distance)
            * (IF call.props.searchConfig[f].weight = 0 THEN 10
               ELSE call.props.searchConfig[f].weight) :
          f \in {g \in Fields : hitDistances(call.snapshots[g], path) # {}}})

positionOf(results, path) ==
  IF \E i \in 1..Len(results) : results[i].indexedDocumentPath = path
    THEN CHOOSE i \in 1..Len(results) : results[i].indexedDocumentPath = path
    ELSE Len(results) + 1

withWeight(props, F, w) == [props EXCEPT !.searchConfig[F].weight = w]

\* C10: for two multi-field configurations that differ only in the weight of
\* field F, w1 > w2 >= 0, and the same query on the same collection, a
\* document hit only through F is placed under w1 no later than under w2.
C10_WeightMonotonicity ==
  \A p \in procs :
    SearchedKind(p, "multi")
    => \A F \in Fields, w1, w2 \in Weights :
         w1 > w2
         => \A path \in Paths :
              ( /\ hitDistances(op[p].snapshots[F], path) # {}
                /\ \A G \in Fields \ {F} : hitDistances(op[p].snapshots[G], path) = {} )
              => positionOf(searchMultiField(op[p].snapshots,
                                             withWeight(op[p].props, F, w1)), path)
                   <= positionOf(searchMultiField(op[p].snapshots,
                                                  withWeight(op[p].props, F, w2)), path)

(***************************************************************************)
(* Claims about concurrent indexing.                                       *)
(***************************************************************************)
\* C3 as stated: two concurrent indexes() calls for one path can interleave
\* so that, once both have completed, the collection holds more than one
\* entry for the path, and so that it holds none.
C3_DuplicateOrZero ==
  \A p \in procs :
    op[p].type = "concurrent"
    => /\ \E S \in op[p].outcomes : Cardinality(EntriesFor(S, op[p].path)) > 1
       /\ \E S \in op[p].outcomes : EntriesFor(S, op[p].path) = {}

\* C3 (amended): two concurrent indexes() calls for one path can interleave so
\* that, once both have completed, the collection holds more than one entry
\* for the path; in no interleaving does it hold none.
C3_DuplicateNeverZero ==
  \A p \in procs :
    op[p].type = "concurrent"
    => /\ \E S \in op[p].outcomes : Cardinality(EntriesFor(S, op[p].path)) > 1
       /\ \A S \in op[p].outcomes : EntriesFor(S, op[p].path) # {}

\* C3 witness: two concurrent calls on a path that had one entry have
\* completed and the path has two entries.
C3_Witness ==
  \E p \in procs :
    /\ op[p].type = "concurrent"
    /\ Cardinality(EntriesFor(pre[p], op[p].path)) = 1
    /\ Count(op[p].path) = 2
    /\ \E S \in op[p].outcomes : Cardinality(EntriesFor(S, op[p].path)) = 1

(***************************************************************************)
(* Claims about score aggregation in multi-field search.                   *)
(***************************************************************************)
\* the fields whose snapshot holds the document
hitFields(call, path) ==
  {f \in Fields : hitDistances(call.snapshots[f], path) # {}}

\* weight times relevance (1 - distance) of the document's hit in field f,
\* in thousandths
scaledRelevance(call, path, f) ==
  call.props.searchConfig[f].weight * (100 - firstHit(call.snapshots[f], path).distance)

\* C11: in multi-field search the score of each returned document is the
\* maximum, over the fields that hit it, of the field's weight times its
\* relevance, and its matchedFields holds exactly one {field, weight, score}
\* entry for every field that hit it.
C11_MaxAggregation ==
  \A p \in procs :
    SearchedKind(p, "multi")
    => \A i \in 1..Len(res[p]) :
         LET path == res[p][i].indexedDocumentPath
             hits == hitFields(op[p], path)
             matched == res[p][i].matchedFields
         IN /\ res[p][i].relevanceScore
                 = SetMax({scaledRelevance(op[p], path, f) : f \in hits})
            /\ Len(matched) = Cardinality(hits)
            /\ \A f \in hits :
                 \E k \in 1..Len(matched) :
                   matched[k] = [field |-> f,
                                 weight |-> op[p].props.searchConfig[f].weight,
                                 score |-> scaledRelevance(op[p], path, f)]

(***************************************************************************)
(* Claims about the length bounds of indexed texts.                        *)
(***************************************************************************)
OutOfBounds(text) ==
  Len(text) < config.wordMinLength \/ Len(text) > config.wordMaxLength

\* C12: indexing a text shorter than wordMinLength or longer than
\* wordMaxLength stores no vector and no fragment for it and raises no
\* error: in indexes(), in the multi-field bulk call and in the keyword
\* version of indexes().
C12_LengthBoundExclusion ==
  /\ \A p \in procs :
       /\ (Returned(p, "indexes") /\ OutOfBounds(op[p].props.inputField))
          => \A e \in EntriesFor(store, op[p].props.returnedFields.indexedDocumentPath) :
               e.vectors = NoVec
       /\ (Returned(p, "indexesLegacy") /\ OutOfBounds(op[p].props.inputField))
          => \A e \in EntriesFor(store, op[p].props.returnedFields.indexedDocumentPath) :
               e.search_keywords = <<>>
       /\ ~ ( /\ op[p].type = "threw"
              /\ op[p].of.type \in {"indexes", "indexesLegacy"}
              /\ OutOfBounds(op[p].of.props.inputField) )
  /\ \A e \in store : \A f \in Fields :
       e.fvec[f] # NoVec => ~ OutOfBounds(e.fvec[f].src)

(***************************************************************************)
(* Claims about the validation of index calls.                             *)
(***************************************************************************)
InvalidInput(props) ==
  \/ props.returnedFields.indexedDocumentPath = ""
  \/ "inputFields" \in DOMAIN props /\ props.inputFields = {}

\* C13: an index call whose indexedDocumentPath is empty, or whose set of
\* field configurations is empty, throws before it reads or writes the
\* collection and before it embeds anything: no such call is ever running or
\* returned, and the call that threw left nothing enqueued.
C13_ValidationBeforeIO ==
  \A p \in procs :
    /\ op[p].type \in {"indexes", "indexesMultiField"} => ~ InvalidInput(op[p].props)
    /\ op[p].type = "threw" => pc[p] = "idle" /\ snap[p] = {} /\ bulk[p] = {}

(***************************************************************************)
(* Claims about bulk calls over lists with a malformed document.           *)
(***************************************************************************)
\* a document of a bulk list whose indexed field (one of them, in the
\* multi-field call) is a text that can be indexed
Indexable(call, document) ==
  IF call.type = "indexesAll" THEN IsString(document.name)
  ELSE hasFieldsToVectorize(document)

\* the collection holds an entry made from the document, with the vector a
\* nearest-neighbour search reads
IndexedFrom(call, document) ==
  \E e \in store :
    /\ e.indexedDocumentPath = document.indexedDocumentPath
    /\ IF call.type = "indexesAll"
         THEN e.vectors = fse_vectorizeText(document.name)
         ELSE e.fvec = multiIndexDocument(document).fvec

\* C14: when a bulk index call over a list that holds a malformed document is
\* over (it threw, or all its writes are committed and close() resolves), the
\* collection holds an entry for every other document of the list.
C14_BulkPartialFailure ==
  \A p \in procs :
    LET call == IF op[p].type = "threw" THEN op[p].of ELSE op[p] IN
    ( /\ call.type \in {"indexesAll", "indexesAllMultiField"}
      /\ op[p].type = "threw" \/ (pc[p] = "close" /\ bulk[p] = {}) )
    => \A i \in 1..Len(call.documents) :
         Indexable(call, call.documents[i]) => IndexedFrom(call, call.documents[i])

(***************************************************************************)
(* Claims about failures inside multi-field search.                        *)
(***************************************************************************)
\* the results of the fields of a multi-field search that did not fail
remainingResults(call) ==
  Flatten([n \in 1..Len(fieldNames) |->
             IF fieldNames[n] \in call.failed THEN <<>>
             ELSE weightedResults(
                    Search_search(call.snapshots[fieldNames[n]],
                                  fieldSearchProps(call.props, fieldNames[n])),
                    fieldNames[n], call.props.searchConfig[fieldNames[n]])])

\* C15: a multi-field search in which the search of a field throws does not
\* throw: it returns the combined, ranked results of the remaining fields.
C15_FieldFailureTolerated ==
  \A p \in procs :
    /\ ~ (op[p].type = "threw" /\ op[p].of.type = "searchMultiField")
    /\ SearchedKind(p, "multi")
       => res[p] = combineMultiFieldResults(remainingResults(op[p]),
                     IF op[p].props.limit = 0 THEN 20 ELSE op[p].props.limit)

\* C15 witness: a multi-field search in which the search of one field threw
\* has returned a document hit through the other field.
C15_Witness ==
  \E p \in procs :
    /\ SearchedKind(p, "multi")
    /\ Cardinality(op[p].failed) = 1
    /\ Len(res[p]) > 0
    /\ \A i \in 1..Len(res[p]) : res[p][i].fieldMatch \notin op[p].failed

(***************************************************************************)
(* Claims about the distance threshold.                                    *)
(***************************************************************************)
\* C16: every result of a vector search has a vector distance no greater
\* than the effective distanceThreshold of that search.
C16_WithinThreshold ==
  \A p \in procs :
    SearchedKind(p, "vector")
    => \A i \in 1..Len(res[p]) :
         \A k \in 1..Len(op[p].snapshot) :
           op[p].snapshot[k].indexedDocumentPath = res[p][i].indexedDocumentPath
           => op[p].snapshot[k].distance <= op[p].distanceThreshold

\* C17 as stated: the effective distanceThreshold is strictly between 0 and
\* 1, and a requested value that is missing, not a number or outside (0,1)
\* is replaced by the default 0.2.
C17_InvalidReplacedByDefault ==
  \A p \in procs :
    SearchedKind(p, "vector")
    => /\ op[p].distanceThreshold > 0 /\ op[p].distanceThreshold < 100
       /\ ~ validThreshold(op[p].props.distanceThreshold)
          => op[p].distanceThreshold = DefaultDistanceThreshold

\* C17: the effective distanceThreshold of a search is strictly between 0
\* and 1; a requested value that is missing, not a number or outside (0,1)
\* never causes an error and is replaced by the configured value when that
\* one is a number inside (0,1), else by the default 0.2.
C17_EffectiveThreshold ==
  \A p \in procs :
    /\ ~ (op[p].type = "threw" /\ op[p].of.type = "search")
    /\ SearchedKind(p, "vector")
       => /\ op[p].distanceThreshold > 0 /\ op[p].distanceThreshold < 100
          /\ ~ validThreshold(op[p].props.distanceThreshold)
             => op[p].distanceThreshold =
                  IF validThreshold(op[p].config.distanceThreshold)
                    THEN op[p].config.distanceThreshold.value
                    ELSE DefaultDistanceThreshold

\* C17 witness: a search that asked for a threshold outside (0,1), by an
\* engine configured with 0.5, ran with 0.5.
C17_Witness ==
  \E p \in procs :
    /\ SearchedKind(p, "vector")
    /\ op[p].props.distanceThreshold = Number(150)
    /\ op[p].config.distanceThreshold = Number(50)
    /\ op[p].distanceThreshold = 50

(***************************************************************************)
(* Claims about the round trip from indexing to search.                    *)
(***************************************************************************)
\* a text up to letter case and surrounding whitespace
normalised(text) == trim(toLowerCase(text))

\* the entries of the collection indexed from a text the query equals up to
\* letter case and surrounding whitespace
roundTripEntries(S, query) ==
  {e \in S : /\ e.vectors # NoVec
             /\ normalised(e.vectors.src) = normalised(query)}

\* C18: a search whose query equals an indexed text up to letter case and
\* surrounding whitespace embeds the text the index embedded, reads the
\* vector field the index wrote, and returns the document (here: whenever
\* the collection holds no more entries than `limit`).
C18_RoundTrip ==
  \A p \in procs :
    ( SearchedKind(p, "vector") /\ \A q \in procs : bulk[q] = {} )
    => \A e \in roundTripEntries(store, op[p].props.fieldValue) :
         /\ vectorValue(e, vectorFieldName(op[p].props))
              = fse_vectorizeText(op[p].props.fieldValue)
         /\ Cardinality(store) <= Search_limit(op[p].props)
            => \E i \in 1..Len(res[p]) :
                 res[p][i].indexedDocumentPath = data(e).indexedDocumentPath

(***************************************************************************)
(* Claims about typo tolerance of the lexical mode.                        *)
(***************************************************************************)
\* the entries indexed as the fragment set of `text`
fragmentEntries(S, text) ==
  {e \in S : e.search_keywords = fse_generateTypos(text) /\ e.search_keywords # <<>>}

\* C19: once the text "Montmartre" is indexed as a fragment set, a lexical
\* search for "Montmatre" returns the document: a fragment of the query is a
\* member of the stored fragment set, and a word of the query is within
\* edit distance 2 of a stored fragment.
C19_TypoTolerance ==
  \A p \in procs :
    ( /\ SearchedKind(p, "lexical")
      /\ op[p].props.fieldValue = TMontmatre
      /\ bulk[p] = {} )
    => \A e \in fragmentEntries(store, TMontmartre) :
         /\ \E i \in 1..Len(e.search_keywords) :
              \E j \in 1..Len(fse_generateCharArray(TMontmatre)) :
                e.search_keywords[i] = fse_generateCharArray(TMontmatre)[j]
         /\ \E i \in 1..Len(e.search_keywords) :
              fse_levenshteinDistance(TMontmatre, e.search_keywords[i]) <= 2
         /\ \E k \in 1..Len(res[p]) :
              res[p][k].indexedDocumentPath = data(e).indexedDocumentPath

(***************************************************************************)
(* Claims about the embedding model.                                       *)
(***************************************************************************)
\* C20: across any interleaving of concurrent vectorize calls in a process,
\* the embedding model is initialised at most once, and every call that
\* embeds does so with that one model.
C20_InitialisedOnce ==
  /\ inits <= 1
  /\ \A c \in VCalls :
       vectorize[c].pc \in {"embed", "done"} /\ vectorize[c].model # 0
       => vectorize[c].model = 1

(***************************************************************************)
(* Claims about what a bulk call has done when it returns.                 *)
(***************************************************************************)
BulkCalls == {"indexesAll", "indexesAllMultiField"}

\* C21: at the step in which a bulk index call returns, none of the writes
\* it enqueued is still pending, and the collection holds an entry for
\* every path it created one for.
C21_AllFlushedAtReturn ==
  [][ \A p \in procs :
        ( pc[p] = "close" /\ pc'[p] = "idle" /\ op[p].type \in BulkCalls )
        => /\ bulk[p] = {}
           /\ \A path \in PathsOf(op[p]) :
                \E e \in store : e.indexedDocumentPath = path ]_vars

\* C21 witness: a bulk call that enqueued a delete and a create has returned
\* with the collection filled and nothing pending.
C21_Witness ==
  \E p \in procs :
    /\ pc[p] = "idle"
    /\ op[p].type \in BulkCalls
    /\ bulk[p] = {}
    /\ store # {}
    /\ pre[p] # {}

(***************************************************************************)
(* Claims about the update trigger.                                        *)
(***************************************************************************)
\* the entry is the one indexed from the source document `doc`
reflects(e, doc) ==
  /\ e.indexedDocumentPath = doc.indexedDocumentPath
  /\ e.vectors = fse_vectorizeText(doc.name)
  /\ e.title = doc.title

\* C22: once the update trigger has completed for a document whose entry
\* was indexed from its old state, the entry reflects the updated document,
\* also when only a display field changed.
C22_EntryReflectsUpdate ==
  \A p \in procs :
    ( pc[p] = "idle" /\ op[p].type = "updated" )
    => \A e \in store :
         reflects(e, op[p].event.before) => reflects(e, op[p].event.after)

(***************************************************************************)
(* Claims about the hybrid ranker.                                         *)
(***************************************************************************)
\* the hybrid score as specified, in thousandths: the whole query reversed
specifiedScore(result, query) ==
  30 * ( fse_levenshteinDistance(toLowerCase(query), toLowerCase(result.fieldValue))
         + fse_levenshteinDistance(Reverse(toLowerCase(query)),
                                   toLowerCase(result.fieldValue)) )
    + 970 + 97 * result.distance

\* C23: for a query of any length, the finalScore of every candidate ranked
\* by the hybrid ranker is 0.03 * (lev(lower(q), lower(c)) +
\* lev(reverse(lower(q)), lower(c))) + 0.97 * (1 + 10 * d), the whole query
\* being reversed.
C23_HybridScore ==
  \A p \in procs :
    ( SearchedKind(p, "vector") /\ op[p].props.fuzzySearch # FALSE )
    => \A i \in 1..Len(res[p]) :
         res[p][i].finalScore = specifiedScore(res[p][i], op[p].props.fieldValue)

\* C24: with fuzzy ranking on, the list a vector search returns is in
\* non-decreasing finalScore order, and of two candidates with the same
\* text the one with the smaller vector distance comes first.
C24_MostRelevantFirst ==
  \A p \in procs :
    ( SearchedKind(p, "vector") /\ op[p].props.fuzzySearch # FALSE )
    => \A i, j \in 1..Len(res[p]) :
         i < j
         => /\ res[p][i].finalScore <= res[p][j].finalScore
            /\ res[p][i].fieldValue = res[p][j].fieldValue
               => res[p][i].distance <= res[p][j].distance

\* C24 witness: a fuzzy search has returned two candidates with the same
\* text, the nearer one first.
C24_Witness ==
  \E p \in procs :
    /\ SearchedKind(p, "vector") /\ op[p].props.fuzzySearch # FALSE
    /\ Len(res[p]) = 2
    /\ res[p][1].fieldValue = res[p][2].fieldValue
    /\ res[p][1].distance < res[p][2].distance

(***************************************************************************)
(* Claims about the criterion of the lexical search.                       *)
(***************************************************************************)
\* a word of the query is within edit distance 2 of the fragment
closeTo(query, fragment) ==
  \E w \in 1..Len(split(query)) :
    fse_levenshteinDistance(split(query)[w], fragment) <= 2

\* the edit distances of the words of the query to the fragment, summed
RECURSIVE totalDistance(_, _)
totalDistance(words, fragment) ==
  IF words = <<>> THEN 0
  ELSE fse_levenshteinDistance(Head(words), fragment)
         + totalDistance(Tail(words), fragment)

\* the paths of the candidates with a fragment a query word is close to
closePaths(snapshot, query) ==
  {snapshot[k].indexedDocumentPath : k \in
     {n \in 1..Len(snapshot) :
        \E i \in 1..Len(snapshot[n].search_keywords) :
          closeTo(query, snapshot[n].search_keywords[i])}}

\* the same, the fragment being also at a total distance of at most 6
closePathsWithinTotal(snapshot, query) ==
  {snapshot[k].indexedDocumentPath : k \in
     {n \in 1..Len(snapshot) :
        \E i \in 1..Len(snapshot[n].search_keywords) :
          /\ closeTo(query, snapshot[n].search_keywords[i])
          /\ totalDistance(split(query), snapshot[n].search_keywords[i]) <= 6}}

resultPaths(results) == {results[i].indexedDocumentPath : i \in 1..Len(results)}

\* C25 as stated: a lexical search (either version) returns, once per path,
\* exactly the delivered candidates with a fragment within edit distance 2 of
\* a query word.
C25_OnlyEditDistance ==
  \A p \in procs :
    ( SearchedKind(p, "lexical") \/ SearchedKind(p, "lexical2") )
    => /\ resultPaths(res[p]) = closePaths(op[p].snapshot, op[p].props.fieldValue)
       /\ Len(res[p]) = Cardinality(resultPaths(res[p]))

\* C25: the second version returns, once per path, exactly the delivered
\* candidates with a fragment within edit distance 2 of a query word; the
\* first version requires of that fragment also that its edit distances to
\* all the query words sum to at most 6, and returns no more than `limit`
\* (20 when none is given) of these candidates.
C25_LexicalCriterion ==
  \A p \in procs :
    /\ SearchedKind(p, "lexical2")
       => /\ resultPaths(res[p]) = closePaths(op[p].snapshot, op[p].props.fieldValue)
          /\ Len(res[p]) = Cardinality(resultPaths(res[p]))
    /\ SearchedKind(p, "lexical")
       => LET within == closePathsWithinTotal(op[p].snapshot, op[p].props.fieldValue)
              limit == IF op[p].props.limit = 0 THEN 20 ELSE op[p].props.limit
          IN /\ resultPaths(res[p]) \subseteq within
             /\ Len(res[p]) = Min(limit, Cardinality(within))
             /\ Len(res[p]) = Cardinality(resultPaths(res[p]))

\* C25 witness: the first version has left out a candidate that has a
\* fragment within edit distance 2 of a query word, with room left under
\* the limit.
C25_Witness ==
  \E p \in procs :
    /\ SearchedKind(p, "lexical")
    /\ closePaths(op[p].snapshot, op[p].props.fieldValue) \ resultPaths(res[p]) # {}
    /\ op[p].props.limit = 0

(***************************************************************************)
(* Claims about documents with no indexable text.                          *)
(***************************************************************************)
\* a configured field of the document holds a non-empty string whose length
\* is within the bounds
withinBounds(text) ==
  Len(text) >= config.wordMinLength /\ Len(text) <= config.wordMaxLength

holdsIndexableText(document) ==
  \E f \in Fields :
    IsString(document[f]) /\ Len(document[f]) > 0 /\ withinBounds(document[f])

\* a multi-field bulk call whose writes are all committed
bulkOver(p) ==
  op[p].type = "indexesAllMultiField" /\ pc[p] = "close" /\ bulk[p] = {}

\* the call of p has created no entry on account of document i of its list
noEntryFor(p, i, Indexed(_)) ==
  \A e \in store \ pre[p] :
    e.indexedDocumentPath = op[p].documents[i].indexedDocumentPath
    => \E j \in 1..Len(op[p].documents) :
         /\ Indexed(op[p].documents[j])
         /\ op[p].documents[j].indexedDocumentPath = e.indexedDocumentPath
         /\ e.fvec = multiIndexDocument(op[p].documents[j]).fvec

\* C26 as stated: a multi-field bulk call throws for no document, creates no
\* entry for a document none of whose fields holds a non-empty string of a
\* length within the bounds, and indexes the other documents.
C26_NoIndexableTextSkipped ==
  \A p \in procs :
    /\ ~ (op[p].type = "threw" /\ op[p].of.type = "indexesAllMultiField")
    /\ bulkOver(p)
       => \A i \in 1..Len(op[p].documents) :
            IF holdsIndexableText(op[p].documents[i])
              THEN IndexedFrom(op[p], op[p].documents[i])
              ELSE noEntryFor(p, i, holdsIndexableText)

(***************************************************************************)
(* Claims about the search endpoints.                                      *)
(***************************************************************************)
\* C27: a request that carries no authenticated user, received by an HTTP
\* search endpoint or by a unified endpoint configured with requireAuth = true,
\* never causes a search: it is answered without searching the store.
C27_NoSearchWithoutAuth ==
  \A p \in procs :
    ( /\ op[p].type = "request"
      /\ op[p].endpoint \in {"http", "unified"}
      /\ op[p].requireAuth
      /\ op[p].request.auth = NoAuth )
    => ~ op[p].searched

(***************************************************************************)
(* Claims about a failing embedding provider.                              *)
(***************************************************************************)
failedEmbedding(call) ==
  call.type = "threw" /\ "error" \in DOMAIN call /\ call.error = "embedding"

\* C28: an index call, single or bulk, that fails because the embedding
\* provider fails has neither deleted nor created any entry: the store is as
\* it was before the call.
C28_EmbeddingFailureWritesNothing ==
  [][ \A p \in procs :
        ( op'[p] # op[p] /\ failedEmbedding(op'[p]) ) => store' = store ]_vars

\* C28 witness: an index call for a path that has an entry has failed on the
\* provider, and so has a bulk call, after a first document was embedded.
C28_Witness ==
  \E p \in procs :
    /\ failedEmbedding(op[p])
    /\ \/ /\ op[p].of.type = "indexes"
          /\ \E e \in store :
               e.indexedDocumentPath = op[p].of.props.returnedFields.indexedDocumentPath
       \/ /\ op[p].of.type = "indexesAllMultiField"
          /\ Len(op[p].of.documents) > 1
          /\ hasFieldsToVectorize(op[p].of.documents[1])
          /\ store # {}

(***************************************************************************)
(* Claims about the frame of the indexing calls.                           *)
(***************************************************************************)
\* the paths of the documents the calls in progress are processing
processedPaths ==
  UNION {PathsOf(op[p]) : p \in {q \in procs : pc[q] # "idle"}}

\* C29: indexes(), removeIndexes() and the bulk calls delete and create only
\* entries whose indexedDocumentPath is the path of a document being
\* processed: in every step the entries of every other path stay as they are.
C29_Frame ==
  [][ \A path \in Paths \ processedPaths :
        Contents(EntriesFor(store', path)) = Contents(EntriesFor(store, path)) ]_vars

\* C29 witness: a call has returned after it replaced or deleted the entries of
\* its path, in a collection that holds an entry of another path.
C29_Witness ==
  \E p \in procs :
    /\ Returned(p, "indexes")
    /\ LET path == op[p].props.returnedFields.indexedDocumentPath IN
         /\ EntriesFor(pre[p], path) # {}
         /\ Contents(EntriesFor(store, path)) # Contents(EntriesFor(pre[p], path))
         /\ \E e \in store : e.indexedDocumentPath # path

(***************************************************************************)
(* Claims about the weighted score of the multi-field search.              *)
(***************************************************************************)
\* the weighted results of field f in the multi-field search of p
weightedOf(p, f) ==
  weightedResults(Search_search(op[p].snapshots[f], fieldSearchProps(op[p].props, f)),
                  f, op[p].props.searchConfig[f])

\* C30: in a multi-field search, within one field of weight greater than 0, a
\* hit at a smaller vector distance never has a lower weighted score than a
\* hit at a larger distance, distances 0 and 1 included.
C30_ScoreMonotone ==
  \A p \in procs :
    SearchedKind(p, "multi")
    => \A f \in Fields :
         op[p].props.searchConfig[f].weight > 0
         => LET hits == weightedOf(p, f) IN
              \A i, j \in 1..Len(hits) :
                hits[i].distance < hits[j].distance
                => hits[i].relevanceScore >= hits[j].relevanceScore

====
